---- MODULE Spec2Model ----
(***************************************************************************)
(* Teams <-> Databricks Genie relay.                                       *)
(*                                                                         *)
(*   GenieClient._poll_for_response   the bounded status-polling loop      *)
(*   GenieClient.ask_question         start-conversation + poll            *)
(*   GenieClient.continue_conversation  follow-up message + poll           *)
(*   TeamsBot._on_message_activity    binding lookup, start-or-continue,   *)
(*                                    binding write, reply                 *)
(*                                                                         *)
(* Message handlers are asyncio tasks: a task runs without interruption    *)
(* from one await to the next, so one action is the code between two       *)
(* awaits of one task, and tasks interleave at the awaits.                 *)
(***************************************************************************)
EXTENDS Naturals, Sequences, FiniteSets

(***************************************************************************)
(* Bounds                                                                  *)
(***************************************************************************)
\* largest max_attempts argument tried on a direct _poll_for_response call
MaxAttempts == 3
\* the poll budget ask_question / continue_conversation run with; the code
\* passes none, so the default of 30 applies; the loop is uniform in it and
\* the model only scales it down
BotMaxAttempts == 2
\* how many inbound messages the bot receives in one run
MaxMessages == 2

(***************************************************************************)
(* JSON values: a key that is missing, and a JSON null (Python None), are  *)
(* marked values; NumberVal is a truthy value that is no string (a number).*)
(***************************************************************************)
Absent == "<absent>"
Null == "<null>"
NumberVal == "<number>"

IsStr(v) == v \notin {Absent, Null, NumberVal}
\* Python truthiness of a JSON value
Truthy(v) == v \notin {Absent, Null, ""}

\* dict.get(key, default) on a field that may be missing
DictGet(v, default) == IF v = Absent THEN default ELSE v

(***************************************************************************)
(* _poll_for_response: the status lists of lines 367, 372, 377             *)
(***************************************************************************)
SuccessStatuses == {"COMPLETED", "SUCCESS", "FINISHED"}
FailureStatuses == {"FAILED", "ERROR"}
InProgressStatuses == {"EXECUTING", "QUERYING_HISTORY", "RUNNING", "PENDING"}

\* statuses that reach the else branch of line 383: two the code does not
\* list, the empty string, null and a missing key
UnknownStatuses == {"CANCELLED", "SUBMITTED", "", Null, Absent}
TimeoutMessage == "Sorry, Genie is taking too long to respond. Please try again."
ErrorPrefix == "Sorry, Genie encountered an error: "
UnknownError == "Unknown error"
ApologyMessage == "Sorry, I couldn't extract Genie's response. Please try again."

(***************************************************************************)
(* The message payload of GET .../messages/{id}.                           *)
(*   exc          the request raised instead (network error, HTTP error    *)
(*                from raise_for_status, body that is no JSON object)      *)
(*   status       data["status"]                                           *)
(*   error        data["error"]: kind absent | null | string | object,     *)
(*                and for an object its "message"                          *)
(*   content      data["content"], the user's question echoed back         *)
(*   attachments  data["attachments"], <<>> when missing or empty          *)
(* An attachment:                                                          *)
(*   isdict         isinstance(attachment, dict)                           *)
(*   qdesc          attachment["query"]["description"], Absent when query  *)
(*                  is missing, is no dict or has no description           *)
(*   tkind, tval    attachment["text"]: absent | dict | str | other; for a *)
(*                  dict tval is its "content" (Absent when missing), for  *)
(*                  a str the string itself                                *)
(*   attachment_id, id   the two id fields                                 *)
(***************************************************************************)
Question == "what is revenue?"

NoError == [kind |-> "absent", message |-> Absent]
ErrorShapes ==
  { NoError,
    [kind |-> "null", message |-> Absent],
    [kind |-> "string", message |-> Absent],
    [kind |-> "object", message |-> Absent],
    [kind |-> "object", message |-> Null],
    [kind |-> "object", message |-> "Query timed out on the warehouse"],
    [kind |-> "object", message |-> "Unknown error"] }

Att(isdict, qdesc, tkind, tval, aid, id) ==
  [isdict |-> isdict, qdesc |-> qdesc, tkind |-> tkind, tval |-> tval,
   attachment_id |-> aid, id |-> id]

AttachmentShapes ==
  { Att(TRUE, "Revenue by region for 2024", "absent", Absent, "a1", Absent),
    Att(TRUE, Absent, "dict", "Here is the summary you asked for", Absent, Absent),
    Att(TRUE, Absent, "str", Question, Absent, "a2"),
    Att(TRUE, Absent, "dict", "Too short", Absent, Absent),
    Att(TRUE, NumberVal, "absent", Absent, Absent, Absent),
    Att(FALSE, Absent, "absent", Absent, Absent, Absent) }

\* largest number of attachments of one message
MaxAttachments == 1

RECURSIVE SeqsUpTo(_, _)
SeqsUpTo(S, n) ==
  IF n = 0 THEN {<<>>}
  ELSE LET shorter == SeqsUpTo(S, n - 1)
       IN shorter \cup {Append(q, x) : q \in {r \in shorter : Len(r) = n - 1}, x \in S}

\* a text followed by an attachment whose description is a number
MixedLists ==
  { <<Att(TRUE, "Revenue by region for 2024", "absent", Absent, "a1", Absent),
      Att(TRUE, NumberVal, "absent", Absent, Absent, Absent)>> }

AttachmentLists == SeqsUpTo(AttachmentShapes, MaxAttachments) \cup MixedLists

\* what one query-result fetch contributes: the rendered table, or "" when
\* the fetch failed, answered non-200 or rendered nothing
TableText == "region | revenue\n-------+--------\nEMEA   | 10     "
FetchOutcomes == {"", TableText}

Data(exc, status, error, attachments) ==
  [exc |-> exc, status |-> status, error |-> error, content |-> Question,
   attachments |-> attachments]

ExcData == Data(TRUE, Absent, NoError, <<>>)
SuccessData == {Data(FALSE, s, NoError, a) : s \in SuccessStatuses, a \in AttachmentLists}
FailureData == {Data(FALSE, s, e, <<>>) : s \in FailureStatuses, e \in ErrorShapes}
PendingData == {Data(FALSE, s, NoError, <<>>) : s \in InProgressStatuses \cup UnknownStatuses}
Responses == {ExcData} \cup SuccessData \cup FailureData \cup PendingData

(***************************************************************************)
(* _extract_response_with_attachments                                      *)
(***************************************************************************)
\* TextContent reading the text field before the query description
TextContentTextFirst(att) ==
  IF att.tkind = "dict" /\ att.tval # Absent THEN att.tval
  ELSE IF att.tkind = "str" THEN att.tval
  ELSE IF Truthy(att.qdesc) THEN att.qdesc
  ELSE Null

\* lines 424-437: query.description, else text.content, else a plain text
TextContent(att) ==
  IF Truthy(att.qdesc) THEN att.qdesc
  ELSE IF att.tkind = "dict" /\ att.tval # Absent THEN att.tval
  ELSE IF att.tkind = "str" THEN att.tval
  ELSE IF att.qdesc = Absent THEN Null ELSE att.qdesc

\* line 440: len() of a value that is no string raises TypeError
TextRaises(att, user_question) ==
  LET tc == TextContent(att)
  IN Truthy(tc) /\ tc # user_question /\ ~IsStr(tc)

\* lines 440-441
TextPart(att, user_question) ==
  LET tc == TextContent(att)
  IN IF Truthy(tc) /\ tc # user_question /\ IsStr(tc) /\ Len(tc) > 10
     THEN <<tc>> ELSE <<>>

\* line 444: attachment.get("attachment_id") or attachment.get("id")
AttachmentId(att) ==
  IF Truthy(att.attachment_id) THEN att.attachment_id ELSE att.id

\* lines 445-458: the fetch is made only with an id; its failure is swallowed
TablePart(att, fetched) ==
  IF Truthy(AttachmentId(att)) /\ fetched # "" THEN <<fetched>> ELSE <<>>

RECURSIVE PartsUntilFailedFetch(_, _, _)
\* Parts in which a fetch that fails ends the loop
PartsUntilFailedFetch(atts, fetch, user_question) ==
  IF atts = <<>> THEN <<>>
  ELSE LET att == Head(atts)
       IN IF att.isdict /\ Truthy(AttachmentId(att)) /\ Head(fetch) = ""
          THEN TextPart(att, user_question)
          ELSE (IF att.isdict
                THEN TextPart(att, user_question) \o TablePart(att, Head(fetch))
                ELSE <<>>)
               \o PartsUntilFailedFetch(Tail(atts), Tail(fetch), user_question)

RECURSIVE Parts(_, _, _)
\* lines 419-458: the parts of the attachments, in order
Parts(atts, fetch, user_question) ==
  IF atts = <<>> THEN <<>>
  ELSE LET att == Head(atts)
       IN (IF att.isdict
           THEN TextPart(att, user_question) \o TablePart(att, Head(fetch))
           ELSE <<>>)
          \o Parts(Tail(atts), Tail(fetch), user_question)

RECURSIVE JoinBlank(_)
JoinBlank(parts) ==
  IF Len(parts) = 1 THEN parts[1]
  ELSE parts[1] \o "\n\n" \o JoinBlank(Tail(parts))

ExtractRaises(data) ==
  \E i \in 1..Len(data.attachments) :
     data.attachments[i].isdict /\ TextRaises(data.attachments[i], data.content)

\* lines 460-465
JoinOrApology(parts) == IF parts # <<>> THEN JoinBlank(parts) ELSE ApologyMessage

\* lines 444-450: the query-result GETs of one call, as <<position, id>>, in
\* the order they are issued; the loop ends where line 440 raises
RECURSIVE FetchRequests(_, _, _)
FetchRequests(atts, user_question, i) ==
  IF i > Len(atts) THEN <<>>
  ELSE IF ~atts[i].isdict THEN FetchRequests(atts, user_question, i + 1)
  ELSE IF TextRaises(atts[i], user_question) THEN <<>>
  ELSE (IF Truthy(AttachmentId(atts[i])) THEN <<<<i, AttachmentId(atts[i])>>>> ELSE <<>>)
       \o FetchRequests(atts, user_question, i + 1)

\* the outcome of the call: [kind |-> "return" | "raise", value]
ExtractResponseWithAttachments(data, fetch) ==
  IF ExtractRaises(data)
  THEN [kind |-> "raise", value |-> "TypeError"]
  ELSE [kind |-> "return",
        value |-> JoinOrApology(Parts(data.attachments, fetch, data.content))]

(***************************************************************************)
(* State                                                                   *)
(***************************************************************************)
Tasks == {"t1", "t2"}
LocalIds == {"A", "B"}
\* a remote id is a positive number; 0 is the empty or missing id
NoId == 0
\* conversations.get(key) of a key that is not bound
None == 0

VARIABLES
  conversations,          \* TeamsBot.conversations: local id -> remote id
  pc,                     \* where each task is suspended
  local,                  \* conversation_id of _on_message_activity
  genie_conversation_id,  \* what line 257 read from the map
  conv_id,                \* conversation id of the exchange being polled
  msg_id,                 \* message id of the exchange being polled
  result,                 \* the dict ask_question / continue_conversation returned
  caller,                 \* who called _poll_for_response: poll | ask | continue
  attempt,                \* loop variable of _poll_for_response
  max_attempts,           \* its argument
  ret,                    \* how _poll_for_response ended: none | return | raise
  next_conv,              \* the remote service: next conversation id it hands out
  received,               \* inbound messages so far
  requests,               \* history: status requests issued by the current poll
  lastData,               \* history, direct call: what the last status request answered
  nonTerminal,            \* history, direct call: answers with a non-terminal status
  resultGets,             \* history, direct call: the query-result GETs of the poll, <<position, id>>
  callKind,               \* history: none | start | continue, the call line 262/269 made
  started,                \* history: the remote conversations started for each local id
  callOk,                 \* history: the start / continue POST succeeded
  arrivalBinding,         \* history: the binding of the local id when the message arrived
  overlap,                \* history: another task handled the same local id meanwhile
  activity,               \* the inbound activity the task is handling
  http,                   \* what POST /api/messages answered for it
  sent,                   \* the send_activity calls of this turn: text, delivered or not
  fbSent,                 \* history: the rating POSTed to the feedback endpoint
  table,                  \* a call of _format_query_result: its argument and what it built
  answer,                 \* a call of _extract_response_with_attachments: payload, fetches, outcome
  extraction,             \* a call of _extract_user_message: the activity and the text returned
  credential,             \* GenieClient._access_token, _token_expires_at, the clock, the last lookup
  secondary,              \* a call of _extract_response_text: the response and the text returned
  timed,                  \* a call of _poll_for_response against the clock: its headers and requests
  process                 \* a server process: the module-level bot of get_bot and its requests

vars == <<conversations, pc, local, genie_conversation_id, conv_id, msg_id, result,
          caller, attempt, max_attempts, ret, next_conv, received, requests,
          lastData, nonTerminal, resultGets, callKind, started, callOk, arrivalBinding, overlap,
          activity, http, sent, fbSent, table, answer, extraction, credential, secondary,
          timed, process>>

turnVars == <<activity, http, sent, fbSent>>
\* the direct calls of single functions
callVars == <<table, answer, extraction, credential, secondary, timed, process>>

NoData == Data(FALSE, "<no request>", NoError, <<>>)
NoRet == [kind |-> "none", value |-> ""]
NoResult == [status |-> "none", conversation_id |-> NoId, message_id |-> NoId,
             response |-> "", error |-> ""]

(***************************************************************************)
(* Inbound activities.  A text is a string; "" is also an activity without *)
(* text.                                                                   *)
(***************************************************************************)
BotName == "Genie"
Markup == "<at>Genie</at>"
QuestionText == "revenue by region?"
CardText == "Thanks for the feedback!"

\* activity.value: nothing, a string that is no JSON, or a JSON object
Value(kind, action, rating, conversation_id, message_id) ==
  [kind |-> kind, action |-> action, rating |-> rating,
   conversation_id |-> conversation_id, message_id |-> message_id]

NoValue == Value("none", Absent, Absent, Absent, Absent)

\* an entity of type mention: its text and the name of whom it mentions
Mention(text, name) == [text |-> text, name |-> name]

InboundActivity(type, conv, text, mentions, recipient, value, members, auth) ==
  [type |-> type, conv |-> conv, text |-> text, mentions |-> mentions,
   recipient |-> recipient, value |-> value, members |-> members, auth |-> auth]

NoActivity == InboundActivity("none", Absent, "", <<>>, "", NoValue, 0, "ok")
NoHttp == [status |-> 0, result |-> "none"]

UpperCase == "ABCDEFGHIJKLMNOPQRSTUVWXYZ"
LowerCase == "abcdefghijklmnopqrstuvwxyz"
Digits == "0123456789"

\* the character at position i of a string, "" beyond its end
Char(str, i) == IF i >= 1 /\ i <= Len(str) THEN SubSeq(str, i, i) ELSE ""

\* the string from position i on
From(str, i) == IF i > Len(str) THEN "" ELSE SubSeq(str, i, Len(str))

RECURSIVE IndexOf(_, _, _)
\* the first position at or after i where the character c is, 0 when none
IndexOf(str, c, i) ==
  IF i > Len(str) THEN 0
  ELSE IF Char(str, i) = c THEN i ELSE IndexOf(str, c, i + 1)

LowerChar(c) ==
  LET i == IndexOf(UpperCase, c, 1) IN IF i = 0 THEN c ELSE Char(LowerCase, i)

RECURSIVE Lower(_)
\* re.IGNORECASE compares the texts with their case folded
Lower(str) == IF str = "" THEN "" ELSE LowerChar(Char(str, 1)) \o Lower(From(str, 2))

\* \s
IsSpace(c) == c \in {" ", "\n", "\t"}
\* \w
IsWord(c) ==
  c # "" /\ (c = "_" \/ IndexOf(UpperCase, c, 1) # 0 \/ IndexOf(LowerCase, c, 1) # 0
               \/ IndexOf(Digits, c, 1) # 0)

RECURSIVE Replace(_, _, _)
\* str.replace(old, new) for a non-empty old: the occurrences from the left,
\* none of them overlapping the one before
Replace(str, old, new) ==
  IF Len(str) < Len(old) THEN str
  ELSE IF SubSeq(str, 1, Len(old)) = old
  THEN new \o Replace(From(str, Len(old) + 1), old, new)
  ELSE Char(str, 1) \o Replace(From(str, 2), old, new)

RECURSIVE ReplaceMentions(_, _)
\* lines 194-195
ReplaceMentions(msg, texts) ==
  IF texts = <<>> THEN msg
  ELSE ReplaceMentions(Replace(msg, Head(texts), " "), Tail(texts))

RECURSIVE LeadingSpaces(_, _)
\* how many white-space characters follow the first i characters
LeadingSpaces(msg, i) ==
  IF IsSpace(Char(msg, i + 1)) THEN 1 + LeadingSpaces(msg, i + 1) ELSE 0

RECURSIVE SkipPunctuation(_, _)
\* [:,-]* after the first k characters: where the match ends
SkipPunctuation(msg, k) ==
  IF Char(msg, k + 1) \in {":", ",", "-"} THEN SkipPunctuation(msg, k + 1) ELSE k

\* name\b[:,-]* after the first j characters: where the match ends, 0 when
\* there is none
NameAt(msg, name, j) ==
  LET k == j + Len(name)
  IN IF /\ k <= Len(msg)
        /\ Lower(SubSeq(msg, j + 1, k)) = Lower(name)
        /\ IsWord(Char(msg, k)) # IsWord(Char(msg, k + 1))
     THEN SkipPunctuation(msg, k) ELSE 0

\* @?name\b[:,-]* after the first j characters, the @ taken when it can be
AtNameAt(msg, name, j) ==
  LET with == IF Char(msg, j + 1) = "@" THEN NameAt(msg, name, j + 1) ELSE 0
  IN IF with # 0 THEN with ELSE NameAt(msg, name, j)

RECURSIVE MatchEnd(_, _, _)
\* ^\s*@?name\b[:,-]* with \s* taking j characters or, failing that, fewer
MatchEnd(msg, name, j) ==
  IF AtNameAt(msg, name, j) # 0 THEN AtNameAt(msg, name, j)
  ELSE IF j = 0 THEN 0 ELSE MatchEnd(msg, name, j - 1)

\* lines 208-209: re.sub(r'^\s*@?name\b[:,-]*', ' ', message, IGNORECASE)
StripName(msg, name) ==
  LET end == MatchEnd(msg, name, LeadingSpaces(msg, 0))
  IN IF end = 0 THEN msg ELSE " " \o From(msg, end + 1)

RECURSIVE StripNames(_, _)
\* lines 205-209, the names in the order the set hands them out
StripNames(msg, order) ==
  IF order = <<>> THEN msg
  ELSE StripNames(StripName(msg, Head(order)), Tail(order))

RECURSIVE StripRight(_)
StripRight(msg) ==
  IF IsSpace(Char(msg, Len(msg))) THEN StripRight(SubSeq(msg, 1, Len(msg) - 1)) ELSE msg

\* str.strip()
Strip(msg) == StripRight(From(msg, LeadingSpaces(msg, 0) + 1))

\* lines 179-190: the texts and the names of the mention entities
MentionTexts(a) ==
  LET keep == {i \in 1..Len(a.mentions) : a.mentions[i].text # ""}
      F[i \in 0..Len(a.mentions)] ==
        IF i = 0 THEN <<>>
        ELSE IF i \in keep THEN Append(F[i - 1], a.mentions[i].text) ELSE F[i - 1]
  IN F[Len(a.mentions)]

\* lines 200-203
PossibleNames(a) ==
  ({a.mentions[i].name : i \in 1..Len(a.mentions)} \cup {a.recipient}) \ {""}

\* line 205: a set is iterated in an order that the language does not fix
Orders(names) ==
  {o \in [1..Cardinality(names) -> names] : \A i, j \in DOMAIN o : i # j => o[i] # o[j]}

\* lines 194-197: the text with the mention markup taken out
WithoutMarkup(a) ==
  Replace(ReplaceMentions(a.text, MentionTexts(a)), "<at>Databricks Genie</at>", "")

\* _extract_user_message, lines 169-211
ExtractUserMessage(a, order) ==
  IF a.text = "" THEN "" ELSE Strip(StripNames(WithoutMarkup(a), order))

\* ConversationKey with one key for every activity
ConversationKeyAlwaysDefault(a) == "default"

\* lines 243-246: the key under which the binding is kept
ConversationKey(a) == IF a.conv \in {Absent, Null, ""} THEN "default" ELSE a.conv

(***************************************************************************)
(* _poll_for_response, one iteration of the loop (lines 358-395)           *)
(***************************************************************************)
\* str() of a value inside an f-string
Str(v) == IF v = Null THEN "None" ELSE v

\* line 373: data.get("error", {}).get("message", "Unknown error");
\* .get on None or on a string raises AttributeError
ErrorMessageRaises(data) == data.error.kind \in {"null", "string"}
ErrorMessage(data) ==
  IF data.error.kind = "absent" THEN UnknownError
  ELSE DictGet(data.error.message, UnknownError)

\* PollBody with an unlisted status taken for a terminal one
PollBodyUnknownIsTerminal(data, fetch) ==
  IF data.exc THEN [kind |-> "raise", value |-> "ClientError"]
  ELSE LET status == DictGet(data.status, "")
       IN IF status \in SuccessStatuses
          THEN ExtractResponseWithAttachments(data, fetch)
          ELSE IF status \in FailureStatuses
          THEN IF ErrorMessageRaises(data)
               THEN [kind |-> "raise", value |-> "AttributeError"]
               ELSE [kind |-> "return", value |-> ErrorPrefix \o Str(ErrorMessage(data))]
          ELSE IF status \in InProgressStatuses
          THEN [kind |-> "retry", value |-> ""]
          ELSE [kind |-> "return", value |-> ApologyMessage]

\* lines 360-387, the body of the try: return | raise | retry
PollBody(data, fetch) ==
  IF data.exc THEN [kind |-> "raise", value |-> "ClientError"]
  ELSE LET status == DictGet(data.status, "")
       IN IF status \in SuccessStatuses
          THEN ExtractResponseWithAttachments(data, fetch)
          ELSE IF status \in FailureStatuses
          THEN IF ErrorMessageRaises(data)
               THEN [kind |-> "raise", value |-> "AttributeError"]
               ELSE [kind |-> "return", value |-> ErrorPrefix \o Str(ErrorMessage(data))]
          ELSE IF status \in InProgressStatuses
          THEN [kind |-> "retry", value |-> ""]
          ELSE [kind |-> "retry", value |-> ""]

\* lines 367-369: the query-result GETs that follow one status answer
Fetches(data) ==
  IF ~data.exc /\ DictGet(data.status, "") \in SuccessStatuses
  THEN FetchRequests(data.attachments, data.content, 1)
  ELSE <<>>

\* PollIteration with the last attempt's exception swallowed like the others
PollIterationSwallowsLast(data, fetch, att, max) ==
  LET out == PollBody(data, fetch)
  IN IF out.kind = "raise" THEN [kind |-> "retry", value |-> ""] ELSE out

\* lines 389-395: an exception is retried unless this was the last attempt
PollIteration(data, fetch, att, max) ==
  LET out == PollBody(data, fetch)
  IN IF out.kind = "raise" /\ att + 1 < max
     THEN [kind |-> "retry", value |-> ""]
     ELSE out

\* LoopContinues running one attempt too many
LoopContinuesOffByOne(att, max) == att <= max

\* line 358: for attempt in range(max_attempts)
LoopContinues(att, max) == att < max

\* ExhaustedOutcome answering with the remote-failure text
ExhaustedOutcomeAsFailure == [kind |-> "return", value |-> ErrorPrefix \o UnknownError]

\* lines 397-399
ExhaustedOutcome == [kind |-> "return", value |-> TimeoutMessage]

IsNonTerminal(data) ==
  ~data.exc /\ DictGet(data.status, "") \notin SuccessStatuses \cup FailureStatuses

(***************************************************************************)
(* How a poll that ended is taken up by its caller.  A direct call keeps   *)
(* the outcome in ret.                                                     *)
(***************************************************************************)
\* ask_question lines 187-197 and 206-212, continue_conversation lines
\* 281-298: a returned text makes a success result, an exception an error
\* result that carries no conversation_id
ExchangeResult(out, conv, msg) ==
  IF out.kind = "return"
  THEN [status |-> "success", conversation_id |-> conv, message_id |-> msg,
        response |-> out.value, error |-> ""]
  ELSE [status |-> "error", conversation_id |-> NoId, message_id |-> NoId,
        response |-> "Sorry, I encountered an error: " \o out.value, error |-> out.value]

\* dict.get(key): None for a key that is not bound
MapGet(map, key) == IF key \in DOMAIN map THEN map[key] ELSE None

MapPut(map, key, value) ==
  [k \in DOMAIN map \cup {key} |-> IF k = key THEN value ELSE map[k]]

\* StoreBinding keeping every binding under one key
StoreBindingSharedKey(map, key, res) ==
  IF res.status # "none" /\ res.conversation_id # NoId
  THEN MapPut(map, "A", res.conversation_id)
  ELSE map

\* StoreBinding without the check of line 272
StoreBindingAlways(map, key, res) == MapPut(map, key, res.conversation_id)

\* _on_message_activity lines 272-273, after ask_question returned
StoreBinding(map, key, res) ==
  IF res.status # "none" /\ res.conversation_id # NoId
  THEN MapPut(map, key, res.conversation_id)
  ELSE map

Finish(h, out) ==
  /\ ret' = [ret EXCEPT ![h] = out]
  /\ IF caller[h] = "poll"
     THEN /\ pc' = [pc EXCEPT ![h] = "returned"]
          /\ UNCHANGED <<conversations, result>>
     ELSE LET res == ExchangeResult(out, conv_id[h], msg_id[h])
          IN /\ pc' = [pc EXCEPT ![h] = "reply"]
             /\ result' = [result EXCEPT ![h] = res]
             /\ conversations' =
                  IF caller[h] = "ask"
                  THEN StoreBinding(conversations, local[h], res)
                  ELSE conversations

\* one status request and what the loop does with its answer
PollAttempt(h, data, fetch) ==
  /\ pc[h] = "poll"
  /\ LoopContinues(attempt[h], max_attempts[h])
  /\ requests' = [requests EXCEPT ![h] = @ + 1]
  /\ lastData' = [lastData EXCEPT ![h] = IF caller[h] = "poll" THEN data ELSE @]
  /\ resultGets' = [resultGets EXCEPT ![h] = IF caller[h] = "poll" THEN @ \o Fetches(data) ELSE @]
  /\ nonTerminal' = [nonTerminal EXCEPT ![h] =
                       IF caller[h] = "poll" /\ IsNonTerminal(data) THEN @ + 1 ELSE @]
  /\ LET out == PollIteration(data, fetch, attempt[h], max_attempts[h])
     IN IF out.kind = "retry"
        THEN /\ attempt' = [attempt EXCEPT ![h] = @ + 1]
             /\ UNCHANGED <<pc, ret, conversations, result>>
        ELSE /\ Finish(h, out)
             /\ UNCHANGED attempt
  /\ UNCHANGED <<local, genie_conversation_id, conv_id, msg_id, caller, max_attempts,
                 next_conv, received, callKind, started, callOk, arrivalBinding,
                 overlap>>
  /\ UNCHANGED turnVars
  /\ UNCHANGED callVars

\* lines 397-399: the loop ran out
PollExhausted(h) ==
  /\ pc[h] = "poll"
  /\ ~LoopContinues(attempt[h], max_attempts[h])
  /\ Finish(h, ExhaustedOutcome)
  /\ UNCHANGED <<local, genie_conversation_id, conv_id, msg_id, caller, attempt,
                 max_attempts, next_conv, received, requests, lastData, nonTerminal, resultGets,
                 callKind, started, callOk, arrivalBinding, overlap>>
  /\ UNCHANGED turnVars
  /\ UNCHANGED callVars

\* one fetch outcome for each attachment of the payload
FetchLists(data) == [1..Len(data.attachments) -> FetchOutcomes]

\* the answers explored for a poll made on behalf of ask_question or
\* continue_conversation, which only look at whether the poll returned or
\* raised: one answer of each kind the loop tells apart
BotResponses ==
  { ExcData,
    Data(FALSE, "COMPLETED", NoError,
         <<Att(TRUE, "Revenue by region for 2024", "absent", Absent, "a1", Absent)>>),
    Data(FALSE, "FINISHED", NoError,
         <<Att(TRUE, NumberVal, "absent", Absent, Absent, Absent)>>),
    Data(FALSE, "FAILED", [kind |-> "object", message |-> "Query timed out on the warehouse"], <<>>),
    Data(FALSE, "RUNNING", NoError, <<>>) }

ResponsesFor(h) == IF caller[h] = "poll" THEN Responses ELSE BotResponses

Poll(h) ==
  \/ \E data \in ResponsesFor(h) : \E fetch \in FetchLists(data) : PollAttempt(h, data, fetch)
  \/ PollExhausted(h)

(***************************************************************************)
(* _format_query_result (lines 467-534).  A statement is what is found     *)
(* under statement_response: the names of manifest.schema.columns and the  *)
(* rows of result.data_array.  A cell is an integer, a string or null.     *)
(* The fence of three back quotes is written with apostrophes.             *)
(***************************************************************************)
MaxRows == 12
RowCap == 10
NullWidth == 4
Fence == "'''"

IntCell(n) == [t |-> "int", n |-> n, s |-> ""]
StrCell(str) == [t |-> "str", n |-> 0, s |-> str]
NullCell == [t |-> "null", n |-> 0, s |-> ""]

Statement(shape, columns, rows) == [shape |-> shape, columns |-> columns, rows |-> rows]

Max(a, b) == IF a >= b THEN a ELSE b
Min(a, b) == IF a <= b THEN a ELSE b

Digit == <<"0", "1", "2", "3", "4", "5", "6", "7", "8", "9">>

RECURSIVE NatStr(_)
\* str() of a non-negative integer
NatStr(n) == IF n < 10 THEN Digit[n + 1] ELSE NatStr(n \div 10) \o Digit[(n % 10) + 1]

\* str(val)
CellStr(c) == IF c.t = "int" THEN NatStr(c.n) ELSE c.s

\* CellText with str() of None
CellTextNullAsNone(c) == IF c.t = "null" THEN "None" ELSE CellStr(c)

\* line 518
CellText(c) == IF c.t = "null" THEN "NULL" ELSE CellStr(c)

\* CellWidth counting nothing for a null
CellWidthNullAsEmpty(c) == IF c.t = "null" THEN 0 ELSE Len(CellStr(c))

\* line 501
CellWidth(c) == IF c.t = "null" THEN NullWidth ELSE Len(CellStr(c))

RECURSIVE Ljust(_, _)
\* str.ljust(width)
Ljust(str, width) == IF Len(str) >= width THEN str ELSE Ljust(str \o " ", width)

RECURSIVE Dashes(_)
\* "-" * width
Dashes(width) == IF width = 0 THEN "" ELSE "-" \o Dashes(width - 1)

RECURSIVE Join(_, _)
\* sep.join(strs)
Join(strs, sep) ==
  IF Len(strs) = 0 THEN ""
  ELSE IF Len(strs) = 1 THEN strs[1]
  ELSE strs[1] \o sep \o Join(Tail(strs), sep)

\* Shown without the cap
ShownAll(rows) == rows

\* rows[:10], lines 498 and 515
Shown(rows) == SubSeq(rows, 1, Min(Len(rows), RowCap))

\* line 479: the names of the schema, col<i> for a column without a name
SchemaColumns(cols) ==
  [i \in 1..Len(cols) |-> IF cols[i] = Absent THEN "col" \o NatStr(i - 1) ELSE cols[i]]

\* Columns that never reads the schema
ColumnsIgnoreSchema(stmt) == [i \in 1..Len(stmt.rows[1]) |-> "Column " \o NatStr(i)]

\* lines 475-494
Columns(stmt) ==
  IF Len(stmt.columns) > 0 THEN SchemaColumns(stmt.columns)
  ELSE [i \in 1..Len(stmt.rows[1]) |-> "Column " \o NatStr(i)]

\* lines 497-501
ColWidths(columns, rows) ==
  [i \in 1..Len(columns) |->
     LET seen == {r \in 1..Len(Shown(rows)) : i <= Len(rows[r])}
         widths == {CellWidth(rows[r][i]) : r \in seen} \cup {Len(Str(columns[i]))}
     IN CHOOSE w \in widths : \A v \in widths : v <= w]

\* line 507
Header(columns, widths) ==
  Join([i \in 1..Len(columns) |-> Ljust(Str(columns[i]), widths[i])], " | ")

\* line 511
Separator(widths) == Join([i \in 1..Len(widths) |-> Dashes(widths[i])], "-+-")

\* lines 515-521
RowLine(row, widths) ==
  Join([i \in 1..Min(Len(row), Len(widths)) |-> Ljust(CellText(row[i]), widths[i])], " | ")

\* lines 525-526
MoreRows(rows) ==
  IF Len(rows) > RowCap
  THEN <<"\n(" \o NatStr(Len(rows) - RowCap) \o " more rows...)">>
  ELSE <<>>

\* lines 504-526: output_lines
OutputLines(stmt) ==
  LET columns == Columns(stmt)
      widths == ColWidths(columns, stmt.rows)
      shown == Shown(stmt.rows)
  IN <<"\n" \o Fence, Header(columns, widths), Separator(widths)>>
       \o [i \in 1..Len(shown) |-> RowLine(shown[i], widths)]
       \o <<Fence>>
       \o MoreRows(stmt.rows)

\* _format_query_result: the lines built, if any, and the text returned
FormatQueryResult(stmt) ==
  IF stmt.shape # "ok" \/ Len(stmt.rows) = 0
  THEN [lines |-> <<>>, text |-> ""]
  ELSE [lines |-> OutputLines(stmt), text |-> Join(OutputLines(stmt), "\n")]

\* the second cell of row i, by the pattern the rows follow
SecondCell(p, i) ==
  CASE p = "a" -> StrCell("a")
    [] p = "null" -> NullCell
    [] p = "anull" -> IF i = 1 THEN StrCell("a") ELSE NullCell
    [] p = "wide" -> IF i = 2 THEN StrCell("EMEA region") ELSE StrCell("a")
    [] OTHER -> IF i > RowCap THEN StrCell("beyond the cap") ELSE StrCell("x")

\* row i: the row number, then the second cell; ragged rows have one cell or
\* three
Row(p, i) ==
  IF p = "ragged"
  THEN IF i % 2 = 1 THEN <<IntCell(i)>>
       ELSE <<IntCell(i), StrCell("b"), StrCell("third")>>
  ELSE <<IntCell(i), SecondCell(p, i)>>

Patterns == {"a", "null", "anull", "wide", "tail", "ragged"}

SchemaChoices ==
  {<<>>, <<"id", "name">>, <<"k", "v">>, <<"id">>, <<"id", "name", "note">>,
   <<Absent, "name">>}

Statements ==
  { Statement("ok", c, [i \in 1..n |-> Row(p, i)]) :
      c \in SchemaChoices, n \in 0..MaxRows, p \in Patterns }
    \cup {Statement("no_statement", <<>>, <<>>), Statement("no_result", <<"id">>, <<>>)}

Unformatted(stmt) == [stmt |-> stmt, called |-> FALSE, lines |-> <<>>, text |-> ""]
NoTable == Unformatted(Statement("no_statement", <<>>, <<>>))

(***************************************************************************)
(* A direct call _extract_response_with_attachments(session, conversation, *)
(* message, message_data) on a payload of up to MaxListed attachments      *)
(***************************************************************************)
\* largest number of attachments of the payload of a direct call
MaxListed == 2

Description == "Revenue by region for 2024"
Content == "Here is the summary you asked for"
Plain == "Totals are in the table below"
TenChars == "Ten chars!"
ElevenChars == "Eleven char"

\* the attachments of a direct call: every source of the text present or
\* missing, texts around the length limit, ids in either field
AssemblyShapes ==
  AttachmentShapes \cup
  { Att(TRUE, Description, "dict", Content, "a1", Absent),
    Att(TRUE, Description, "str", Plain, Absent, "a2"),
    Att(TRUE, "", "dict", Content, "", "a2"),
    Att(TRUE, Null, "str", Plain, Absent, Absent),
    Att(TRUE, "Too short", "dict", Content, Absent, Absent),
    Att(TRUE, Absent, "dict", Absent, "a1", Absent),
    Att(TRUE, Absent, "dict", "", Absent, Absent),
    Att(TRUE, Absent, "other", Absent, Absent, Absent),
    Att(TRUE, Absent, "str", TenChars, Absent, Absent),
    Att(TRUE, Absent, "str", ElevenChars, Absent, Absent) }

AssemblyData ==
  {Data(FALSE, "COMPLETED", NoError, a) : a \in SeqsUpTo(AssemblyShapes, MaxListed)}

\* lines 419-441: what each attachment appended to parts as its text
AppendedTexts(atts, user_question) ==
  [i \in 1..Len(atts) |->
     IF atts[i].isdict /\ ~TextRaises(atts[i], user_question)
     THEN TextPart(atts[i], user_question) ELSE <<>>]

Unanswered(data, fetch) ==
  [data |-> data, fetch |-> fetch, called |-> FALSE, texts |-> <<>>, gets |-> <<>>,
   out |-> NoRet]
NoAnswer == Unanswered(NoData, <<>>)

\* a direct call of _extract_user_message that has not been made yet
Unextracted(a, order) ==
  [activity |-> a, order |-> order, called |-> FALSE, marked |-> "", out |-> ""]
NoExtraction == Unextracted(NoActivity, <<>>)

(***************************************************************************)
(* GenieClient._get_headers (lines 45-67) on one client, with a clock.     *)
(* A token is the number of the fetch that returned it, None before the    *)
(* first.  The lookup makes a blocking request, so lookups do not overlap. *)
(***************************************************************************)
\* the clock stops here
MaxTime == 125
\* the token endpoint answers at most this many requests
MaxFetches == 3
RefreshMargin == 60
DefaultExpiresIn == 3600

\* how far the clock moves between two lookups
Ticks == {30, 31}

\* what the token endpoint answers: an error (network, HTTP status), a body
\* without access_token, a body whose expires_in is no number, or a token
\* with or without expires_in
TokenReply(kind, has_expires_in, expires_in) ==
  [kind |-> kind, has_expires_in |-> has_expires_in, expires_in |-> expires_in]
TokenReplies ==
  { TokenReply("error", FALSE, 0), TokenReply("no_token", FALSE, 0),
    TokenReply("bad_expires_in", TRUE, 0), TokenReply("ok", FALSE, 0) }
    \cup {TokenReply("ok", TRUE, e) : e \in {60, 61, 90}}

NoLookup ==
  [outcome |-> "none", at |-> 0, cached |-> None, expiry |-> 0, posted |-> FALSE,
   reply |-> "none", expires_in |-> 0, returned |-> None]

\* GenieClient.__init__ lines 40-41, the clock, the requests made, whether a
\* token request is under way, and the last lookup
NoCredential ==
  [token |-> None, expires_at |-> 0, now |-> 0, fetches |-> 0, pending |-> FALSE,
   last |-> NoLookup]

\* NeedsFetch without the margin
NeedsFetchAtExpiry(token, expires_at, now) == token = None \/ now > expires_at

\* line 48
NeedsFetch(token, expires_at, now) == token = None \/ now > expires_at - RefreshMargin

\* line 61: int(token_result.get("expires_in", 3600))
ExpiresIn(reply) == IF reply.has_expires_in THEN reply.expires_in ELSE DefaultExpiresIn

\* lines 47-55 and 64-67: the clock is read; the cached token is returned, or
\* the token request is sent
LookupStarted(c) ==
  LET lookup == [NoLookup EXCEPT !.at = c.now, !.cached = c.token, !.expiry = c.expires_at]
  IN IF ~NeedsFetch(c.token, c.expires_at, c.now)
     THEN [c EXCEPT !.last = [lookup EXCEPT !.outcome = "cached", !.returned = c.token]]
     ELSE [c EXCEPT !.pending = TRUE,
                    !.last = [lookup EXCEPT !.outcome = "posting", !.posted = TRUE]]

\* LookupEnded with the cache cleared by a token request that fails
LookupEndedClearsOnFailure(c, reply) ==
  IF reply.kind # "ok"
  THEN [c EXCEPT !.pending = FALSE, !.fetches = @ + 1, !.token = None,
                 !.expires_at = 0, !.last.outcome = "raised",
                 !.last.reply = reply.kind]
  ELSE [c EXCEPT !.pending = FALSE, !.fetches = @ + 1,
                 !.token = c.fetches + 1,
                 !.expires_at = c.last.at + ExpiresIn(reply),
                 !.last.outcome = "fetched",
                 !.last.reply = reply.kind,
                 !.last.expires_in = ExpiresIn(reply),
                 !.last.returned = c.fetches + 1]

\* lines 55-67: the token request is answered; a request that fails (line
\* 56), a body without access_token (line 60) and an expires_in that is no
\* number (line 61) raise before lines 62-63 write the cache
LookupEnded(c, reply) ==
  IF reply.kind # "ok"
  THEN [c EXCEPT !.pending = FALSE, !.fetches = @ + 1, !.last.outcome = "raised",
                 !.last.reply = reply.kind]
  ELSE [c EXCEPT !.pending = FALSE, !.fetches = @ + 1,
                 !.last.reply = reply.kind,
                 !.token = c.fetches + 1,
                 !.expires_at = c.last.at + ExpiresIn(reply),
                 !.last.outcome = "fetched",
                 !.last.expires_in = ExpiresIn(reply),
                 !.last.returned = c.fetches + 1]

(***************************************************************************)
(* _extract_response_text (lines 536-602).  The response is a JSON value:  *)
(* a string, a number, null, a list of values or an object, which is a     *)
(* list of keys with their values in the order the body has them.  The     *)
(* warning sign that begins the diagnostic text is written (!), the fence  *)
(* of three back quotes with apostrophes.                                  *)
(***************************************************************************)
MinTopLevelLen == 20
DumpCap == 2000

JStr(s) == [t |-> "str", s |-> s, n |-> 0, items |-> <<>>]
JNum(n) == [t |-> "num", s |-> "", n |-> n, items |-> <<>>]
JNull == [t |-> "null", s |-> "", n |-> 0, items |-> <<>>]
JList(items) == [t |-> "list", s |-> "", n |-> 0, items |-> items]
JDict(pairs) == [t |-> "dict", s |-> "", n |-> 0, items |-> pairs]
Pair(key, val) == [key |-> key, val |-> val]

\* key in d
Has(d, key) == \E i \in 1..Len(d.items) : d.items[i].key = key
\* d[key]
Get(d, key) == d.items[CHOOSE i \in 1..Len(d.items) : d.items[i].key = key].val

\* bool(v)
JTruthy(v) ==
  CASE v.t = "str" -> v.s # ""
    [] v.t = "num" -> v.n # 0
    [] v.t = "null" -> FALSE
    [] OTHER -> v.items # <<>>

\* str(v) of a string, a number or None
PyStr(v) ==
  CASE v.t = "str" -> v.s
    [] v.t = "num" -> NatStr(v.n)
    [] OTHER -> "None"

RECURSIVE Spaces(_)
Spaces(n) == IF n = 0 THEN "" ELSE " " \o Spaces(n - 1)

RECURSIVE JsonDumps(_, _)
\* json.dumps(v, indent=2) of a value that stands ind columns in
JsonDumps(v, ind) ==
  CASE v.t = "str" -> "\"" \o v.s \o "\""
    [] v.t = "num" -> NatStr(v.n)
    [] v.t = "null" -> "null"
    [] v.t = "list" ->
         IF v.items = <<>> THEN "[]"
         ELSE "[\n"
                \o Join([i \in 1..Len(v.items) |->
                           Spaces(ind + 2) \o JsonDumps(v.items[i], ind + 2)], ",\n")
                \o "\n" \o Spaces(ind) \o "]"
    [] OTHER ->
         IF v.items = <<>> THEN "{}"
         ELSE "{\n"
                \o Join([i \in 1..Len(v.items) |->
                           Spaces(ind + 2) \o "\"" \o v.items[i].key \o "\": "
                             \o JsonDumps(v.items[i].val, ind + 2)], ",\n")
                \o "\n" \o Spaces(ind) \o "}"

\* lines 554-569: the text of one attachment
AttachmentText(att) ==
  LET text == Get(att, "text")
      m1 == IF Has(att, "text") /\ JTruthy(text)
            THEN IF text.t = "dict"
                 THEN IF Has(text, "content") THEN Get(text, "content") ELSE JStr("")
                 ELSE JStr(PyStr(text))
            ELSE JNull
      m2 == IF ~JTruthy(m1) /\ Has(att, "content")
            THEN JStr(PyStr(Get(att, "content"))) ELSE m1
  IN IF ~JTruthy(m2) /\ Has(att, "description")
     THEN JStr(PyStr(Get(att, "description"))) ELSE m2

Part(source, text) == [source |-> source, text |-> text]

\* lines 545-573: the parts the attachments give
AttachmentParts(response) ==
  IF ~Has(response, "attachments") THEN <<>>
  ELSE LET atts == Get(response, "attachments").items
           F[i \in 0..Len(atts)] ==
             IF i = 0 THEN <<>>
             ELSE IF atts[i].t = "dict" /\ JTruthy(AttachmentText(atts[i]))
             THEN Append(F[i - 1], Part("attachment", AttachmentText(atts[i]).s))
             ELSE F[i - 1]
       IN F[Len(atts)]

\* line 572: text_content[:100] of a text that is a number raises TypeError
AttachmentsRaise(response) ==
  /\ Has(response, "attachments")
  /\ \E i \in 1..Len(Get(response, "attachments").items) :
        LET att == Get(response, "attachments").items[i]
        IN att.t = "dict" /\ JTruthy(AttachmentText(att)) /\ AttachmentText(att).t # "str"

\* line 579
TopLevelFields == <<"content", "text", "description", "message", "response", "result">>

\* TopLevelPart that takes a string of any length
TopLevelPartAnyLength(response, field) ==
  IF ~Has(response, field) \/ ~JTruthy(Get(response, field)) THEN <<>>
  ELSE LET value == Get(response, field)
       IN IF value.t = "dict"
          THEN IF Has(value, "content") THEN <<Part(field, PyStr(Get(value, "content")))>>
               ELSE IF Has(value, "text") THEN <<Part(field, PyStr(Get(value, "text")))>>
               ELSE <<>>
          ELSE IF value.t = "str" THEN <<Part(field, value.s)>>
          ELSE <<>>

\* lines 580-589: what one top-level field gives
TopLevelPart(response, field) ==
  IF ~Has(response, field) \/ ~JTruthy(Get(response, field)) THEN <<>>
  ELSE LET value == Get(response, field)
       IN IF value.t = "dict"
          THEN IF Has(value, "content") THEN <<Part(field, PyStr(Get(value, "content")))>>
               ELSE IF Has(value, "text") THEN <<Part(field, PyStr(Get(value, "text")))>>
               ELSE <<>>
          ELSE IF value.t = "str" /\ Len(value.s) > MinTopLevelLen
          THEN <<Part(field, value.s)>>
          ELSE <<>>

\* lines 576-589
TopLevelParts(response) ==
  LET F[i \in 0..Len(TopLevelFields)] ==
        IF i = 0 THEN <<>> ELSE F[i - 1] \o TopLevelPart(response, TopLevelFields[i])
  IN F[Len(TopLevelFields)]

\* lines 542-589: parts
ResponseParts(response) ==
  IF AttachmentParts(response) # <<>> THEN AttachmentParts(response)
  ELSE TopLevelParts(response)

\* line 598
DebugDump(response) ==
  LET json == JsonDumps(response, 0)
  IN "(!) Debug - Full response:\n" \o Fence \o "json\n"
       \o SubSeq(json, 1, Min(Len(json), DumpCap)) \o "\n" \o Fence

\* _extract_response_text: the parts and the text returned
ExtractResponseText(response) ==
  IF AttachmentsRaise(response)
  THEN [parts |-> <<>>,
        out |-> "Error formatting response: 'int' object is not subscriptable"]
  ELSE LET parts == ResponseParts(response)
       IN [parts |-> parts,
           out |-> IF parts # <<>>
                   THEN Join([i \in 1..Len(parts) |-> parts[i].text], "\n\n")
                   ELSE DebugDump(response)]

(***************************************************************************)
(* _poll_for_response against the clock (lines 355-399): the headers are   *)
(* looked up once, at line 355, and every status request of the loop is    *)
(* sent with them.                                                         *)
(***************************************************************************)
MaxPolls == 3
TimedPoll(max) ==
  [pc |-> "start", attempt |-> 0, max_attempts |-> max, token |-> None, expiry |-> 0,
   requests |-> <<>>]
\* a poll that has not begun
NoTimed == TimedPoll(0)
\* the headers of line 355: the token returned and the expiry cached with it
WithHeaders(t, c) == [t EXCEPT !.pc = "loop", !.token = c.last.returned, !.expiry = c.expires_at]
\* line 360: a status request, the time it is sent and the token it carries
StatusRequestOf(t, now) == [at |-> now, token |-> t.token, expiry |-> t.expiry]
\* lines 358-395: what the loop does after a request: a terminal status ends
\* the poll, an exception on the last attempt leaves it, anything else sleeps
AfterStatusRequest(t, outcome) ==
  IF outcome = "terminal" THEN [t EXCEPT !.pc = "done"]
  ELSE IF outcome = "exception" /\ ~(t.attempt < t.max_attempts - 1)
  THEN [t EXCEPT !.pc = "raised"]
  ELSE [t EXCEPT !.pc = "sleep", !.attempt = @ + 1]
(***************************************************************************)
(* get_bot and Config.validate (src/containerapp/app.py, src/function_app.py, *)
(* src/config.py).  A process is the module state of one entry point: the  *)
(* values the configuration read from the environment when the module was  *)
(* imported, the module-level _bot (and _genie of function_app), the number *)
(* of objects built so far, and what the last call of get_bot did.  An     *)
(* object is named by its number in the order of construction.             *)
(***************************************************************************)
EntryPoints == {"containerapp", "function_app"}

\* config.py lines 30-38: the values validate requires
Required ==
  {"DATABRICKS_HOST", "DATABRICKS_CLIENT_ID", "DATABRICKS_CLIENT_SECRET",
   "DATABRICKS_TENANT_ID", "DATABRICKS_GENIE_SPACE_ID", "MICROSOFT_APP_ID",
   "MICROSOFT_APP_PASSWORD"}

\* config.py line 22: read, but not required
Optional == {"MICROSOFT_APP_TENANT_ID"}

\* config.py line 40: the required names without a non-empty value; env is
\* the set of names that have one
Missing(env) == Required \ env

\* app.py line 19, function_app.py lines 17-18
Process(entry, env) ==
  [entry |-> entry, env |-> env, bot |-> None, genie |-> None, bot_genie |-> None,
   bots |-> 0, genies |-> 0, calls |-> 0, last |-> "none", returned |-> None,
   attempted |-> FALSE]

\* a process that has handled no request
NoProcess == Process("containerapp", {})

\* the test of line 26 replaced by one that always initialises
UninitialisedAlways(p) == TRUE

\* app.py line 26, function_app.py line 25: _bot is None
Uninitialised(p) == p.bot = None

\* get_bot, one whole call.  ctor is what the constructor of TeamsBot does
\* (ok | raises); GenieClient.__init__ only stores its arguments.  In
\* function_app the client is assigned to the global _genie before the bot
\* is built (line 36), in containerapp it is a local (line 34).
GetBotCall(p, ctor) ==
  LET q == [p EXCEPT !.calls = @ + 1, !.attempted = Uninitialised(p)]
      g == [q EXCEPT !.genies = @ + 1,
                     !.genie = IF p.entry = "function_app" THEN p.genies + 1 ELSE @]
  IN  IF ~Uninitialised(p)
        THEN [q EXCEPT !.last = "returned", !.returned = p.bot]
      ELSE IF Missing(p.env) # {}
        THEN [q EXCEPT !.last = "raised", !.returned = None]
      ELSE IF ctor = "raises"
        THEN [g EXCEPT !.last = "raised", !.returned = None]
      ELSE [g EXCEPT !.bots = @ + 1, !.bot = p.bots + 1, !.bot_genie = g.genies,
                     !.last = "returned", !.returned = p.bots + 1]
\* a direct call of _extract_response_text that has not been made yet
Unread(response) == [response |-> response, called |-> FALSE, parts |-> <<>>, out |-> ""]
NoSecondary == Unread(JDict(<<>>))

(***************************************************************************)
(* A direct call _poll_for_response(conversation_id, message_id, n)        *)
(***************************************************************************)
Idle(f) == [h \in Tasks |-> f]

PollInit ==
  /\ conversations = [l \in {} |-> None]
  /\ pc = [h \in Tasks |-> IF h = "t1" THEN "poll" ELSE "idle"]
  /\ local = Idle("")
  /\ genie_conversation_id = Idle(None)
  /\ conv_id = [h \in Tasks |-> IF h = "t1" THEN 1 ELSE NoId]
  /\ msg_id = [h \in Tasks |-> IF h = "t1" THEN 1 ELSE NoId]
  /\ result = Idle(NoResult)
  /\ caller = Idle("poll")
  /\ attempt = Idle(0)
  /\ \E n \in 0..MaxAttempts : max_attempts = [h \in Tasks |-> IF h = "t1" THEN n ELSE 0]
  /\ ret = Idle(NoRet)
  /\ next_conv = 2
  /\ received = 0
  /\ requests = Idle(0)
  /\ lastData = Idle(NoData)
  /\ nonTerminal = Idle(0)
  /\ resultGets = Idle(<<>>)
  /\ callKind = Idle("none")
  /\ started = [l \in LocalIds |-> {}]
  /\ callOk = Idle(FALSE)
  /\ arrivalBinding = Idle(None)
  /\ overlap = Idle(FALSE)
  /\ activity = Idle(NoActivity)
  /\ http = Idle(NoHttp)
  /\ sent = Idle(<<>>)
  /\ fbSent = Idle("")
  /\ table = NoTable
  /\ answer = NoAnswer
  /\ extraction = NoExtraction
  /\ credential = NoCredential
  /\ secondary = NoSecondary
  /\ timed = NoTimed
  /\ process = NoProcess

PollNext == \E h \in Tasks : Poll(h)

PollSpec == PollInit /\ [][PollNext]_vars

(***************************************************************************)
(* TeamsBot._on_message_activity with GenieClient.ask_question and         *)
(* GenieClient.continue_conversation                                       *)
(***************************************************************************)
Init ==
  /\ conversations = [l \in {} |-> None]
  /\ pc = Idle("idle")
  /\ local = Idle("")
  /\ genie_conversation_id = Idle(None)
  /\ conv_id = Idle(NoId)
  /\ msg_id = Idle(NoId)
  /\ result = Idle(NoResult)
  /\ caller = Idle("poll")
  /\ attempt = Idle(0)
  /\ max_attempts = Idle(0)
  /\ ret = Idle(NoRet)
  /\ next_conv = 1
  /\ received = 0
  /\ requests = Idle(0)
  /\ lastData = Idle(NoData)
  /\ nonTerminal = Idle(0)
  /\ resultGets = Idle(<<>>)
  /\ callKind = Idle("none")
  /\ started = [l \in LocalIds |-> {}]
  /\ callOk = Idle(FALSE)
  /\ arrivalBinding = Idle(None)
  /\ overlap = Idle(FALSE)
  /\ activity = Idle(NoActivity)
  /\ http = Idle(NoHttp)
  /\ sent = Idle(<<>>)
  /\ fbSent = Idle("")
  /\ table = NoTable
  /\ answer = NoAnswer
  /\ extraction = NoExtraction
  /\ credential = NoCredential
  /\ secondary = NoSecondary
  /\ timed = NoTimed
  /\ process = NoProcess

pollVars == <<caller, attempt, max_attempts, ret, requests, lastData, nonTerminal, resultGets>>

\* the variables a send_activity step leaves alone
sendFrame == <<conversations, local, genie_conversation_id, conv_id, msg_id, result,
               next_conv, received, callKind, started, callOk, arrivalBinding, overlap,
               activity, fbSent, callVars>>

\* the task is inside a handler
Handling(h) == pc[h] \notin {"idle", "done"}

\* handle_request letting what was raised inside it reach its caller
HandleRequestPropagates(fault) == [raises |-> fault # "none", status |-> "ok"]

\* handle_request, lines 73-125: whatever was raised while the activity was
\* processed (fault: none | send | auth), a dict is returned; only a fault of
\* the adapter itself makes it an error dict
HandleRequest(fault) ==
  [raises |-> FALSE, status |-> IF fault = "auth" THEN "error" ELSE "ok"]

\* messages, function_app.py lines 69-105 and containerapp/app.py lines 56-73:
\* 400 for a body that is no JSON, 500 for any other exception, else 200
\* around the dict handle_request returned
Messages(parsed, out) ==
  IF ~parsed THEN [status |-> 400, result |-> "none"]
  ELSE IF out.raises THEN [status |-> 500, result |-> "none"]
  ELSE [status |-> 200, result |-> out.status]

\* the handlers have returned and POST /api/messages is answered
EndTurn(h, fault) ==
  /\ pc' = [pc EXCEPT ![h] = "done"]
  /\ http' = [http EXCEPT ![h] = Messages(TRUE, HandleRequest(fault))]

Goto(h, p) ==
  /\ pc' = [pc EXCEPT ![h] = p]
  /\ UNCHANGED http

\* turn_context.send_activity(text): delivered, or an exception
Sent(text, ok) == [text |-> text, ok |-> ok]
Say(h, ok, text) == sent' = [sent EXCEPT ![h] = Append(@, Sent(text, ok))]

PromptText == "Please send me a question about your data."
UnexpectedText == "Sorry, I encountered an unexpected error. Please try again."
WelcomeText == "Hello! I'm your Databricks Genie assistant."
FeedbackCard == "<card: Was this response helpful?>"
RejectText == "Sorry, couldn't record your feedback."
ThanksText == "Thanks for your feedback!"
NotRecordedText == "Sorry, couldn't record feedback."
FeedbackErrorText == "Sorry, an error occurred while recording feedback."

\* lines 226-230: activity.value is a JSON object whose action is feedback
IsFeedback(v) == v.kind = "dict" /\ v.action = "feedback"

\* _handle_feedback line 367
FeedbackComplete(v) == Truthy(v.rating) /\ Truthy(v.conversation_id) /\ Truthy(v.message_id)

\* NoUserMessage letting every text through
NoUserMessageNever(msg) == FALSE

\* line 238: not user_message
NoUserMessage(msg) == msg = ""

\* lines 236-254: the text is extracted; without text the prompt is sent, with
\* text the typing indicator, and the task suspends on that send
EnterMessage(h, a) ==
  \E order \in Orders(PossibleNames(a)) :
  IF NoUserMessage(ExtractUserMessage(a, order))
  THEN /\ Goto(h, "prompt")
       /\ UNCHANGED <<local, arrivalBinding, overlap>>
  ELSE LET l == ConversationKey(a)
           others == {g \in Tasks \ {h} : Handling(g) /\ local[g] = l}
       IN /\ Goto(h, "typing")
          /\ local' = [local EXCEPT ![h] = l]
          /\ arrivalBinding' = [arrivalBinding EXCEPT ![h] = MapGet(conversations, l)]
          /\ overlap' = [g \in Tasks |-> IF g = h THEN others # {}
                                         ELSE IF g \in others THEN TRUE ELSE overlap[g]]

\* messages answering a body that is no JSON
BadRequest(h) ==
  /\ pc[h] = "idle"
  /\ received < MaxMessages
  /\ received' = received + 1
  /\ pc' = [pc EXCEPT ![h] = "done"]
  /\ http' = [http EXCEPT ![h] = Messages(FALSE, HandleRequest("none"))]
  /\ UNCHANGED <<conversations, local, genie_conversation_id, conv_id, msg_id, result,
                 next_conv, callKind, started, callOk, arrivalBinding, overlap,
                 activity, sent, fbSent, callVars>>
  /\ UNCHANGED pollVars

\* IsMessage that takes every activity but a conversation update for a message
IsMessageUnlessUpdate(a) == a.type # "conversationUpdate"

\* _on_turn line 142
IsMessage(a) == a.type = "message"

\* messages, handle_request lines 73-92, _on_turn lines 134-146 and
\* _on_message_activity lines 220-254: activity a arrives and is dispatched up
\* to the first await of its handler
Receive(h, a) ==
  /\ pc[h] = "idle"
  /\ received < MaxMessages
  /\ received' = received + 1
  /\ activity' = [activity EXCEPT ![h] = a]
  /\ IF a.auth = "denied"
     THEN /\ EndTurn(h, "auth")
          /\ UNCHANGED <<local, arrivalBinding, overlap>>
     ELSE IF IsMessage(a)
     THEN IF IsFeedback(a.value)
          THEN /\ Goto(h, IF FeedbackComplete(a.value) THEN "fb_post" ELSE "fb_reject")
               /\ UNCHANGED <<local, arrivalBinding, overlap>>
          ELSE EnterMessage(h, a)
     ELSE IF a.type = "conversationUpdate" /\ a.members > 0
     THEN /\ Goto(h, "welcome")
          /\ UNCHANGED <<local, arrivalBinding, overlap>>
     ELSE /\ EndTurn(h, "none")
          /\ UNCHANGED <<local, arrivalBinding, overlap>>
  /\ UNCHANGED <<conversations, genie_conversation_id, conv_id, msg_id, result,
                 next_conv, callKind, started, callOk, sent, fbSent, callVars>>
  /\ UNCHANGED pollVars

\* _on_conversation_update, lines 156-167: the welcome for the member added
Welcome(h, ok) ==
  /\ pc[h] = "welcome"
  /\ Say(h, ok, WelcomeText)
  /\ EndTurn(h, IF ok THEN "none" ELSE "send")
  /\ UNCHANGED sendFrame
  /\ UNCHANGED pollVars

\* lines 238-241: the prompt for a message without text; a failed send goes
\* to the handler of line 313
Prompt(h, ok) ==
  /\ pc[h] = "prompt"
  /\ Say(h, ok, PromptText)
  /\ IF ok THEN EndTurn(h, "none") ELSE Goto(h, "apologise")
  /\ UNCHANGED sendFrame
  /\ UNCHANGED pollVars

\* lines 313-320: the apology of the outer handler; its own failure is dropped
Apologise(h, ok) ==
  /\ pc[h] = "apologise"
  /\ Say(h, ok, UnexpectedText)
  /\ EndTurn(h, "send")
  /\ UNCHANGED sendFrame
  /\ UNCHANGED pollVars

\* str.upper() on the ratings the activities carry
Upper(r) ==
  CASE r = "positive" -> "POSITIVE"
    [] r = "negative" -> "NEGATIVE"
    [] r = "Negative" -> "NEGATIVE"
    [] r = "meh" -> "MEH"
    [] OTHER -> r

\* how the feedback POST can end: before anything was sent (no credentials),
\* with an HTTP status >= 400, with a transport exception, or with a 2xx
FeedbackOutcomes == {"unsent", "http_error", "exception", "ok"}

FeedbackResult(ok) ==
  [status |-> IF ok THEN "success" ELSE "error", conversation_id |-> NoId,
   message_id |-> NoId, response |-> "", error |-> IF ok THEN "" ELSE "feedback failed"]

\* _handle_feedback line 372 with send_feedback, lines 312-334: upper() raises
\* on a rating that is no string, before anything is sent
FbPost(h, outcome) ==
  /\ pc[h] = "fb_post"
  /\ LET rating == activity[h].value.rating
     IN /\ IsStr(rating) \/ outcome = "unsent"
        /\ fbSent' = [fbSent EXCEPT ![h] = IF outcome = "unsent" THEN @ ELSE Upper(rating)]
  /\ result' = [result EXCEPT ![h] = FeedbackResult(outcome = "ok")]
  /\ Goto(h, "fb_ack")
  /\ UNCHANGED <<conversations, local, genie_conversation_id, conv_id, msg_id,
                 next_conv, received, callKind, started, callOk, arrivalBinding,
                 overlap, activity, sent, callVars>>
  /\ UNCHANGED pollVars

\* _handle_feedback lines 367-370: incomplete feedback is turned down
FbReject(h, ok) ==
  /\ pc[h] = "fb_reject"
  /\ Say(h, ok, RejectText)
  /\ IF ok THEN EndTurn(h, "none") ELSE Goto(h, "fb_error")
  /\ UNCHANGED sendFrame
  /\ UNCHANGED pollVars

\* _handle_feedback lines 374-380
FbAck(h, ok) ==
  /\ pc[h] = "fb_ack"
  /\ Say(h, ok, IF result[h].status = "success" THEN ThanksText ELSE NotRecordedText)
  /\ IF ok THEN EndTurn(h, "none") ELSE Goto(h, "fb_error")
  /\ UNCHANGED sendFrame
  /\ UNCHANGED pollVars

\* _handle_feedback lines 382-384 and _on_message_activity lines 233-254: a
\* send that fails inside the except block leaves _handle_feedback as an
\* exception, line 233 drops it and the activity is handled as a message
FbError(h, ok) ==
  /\ pc[h] = "fb_error"
  /\ Say(h, ok, FeedbackErrorText)
  /\ IF ok
     THEN /\ EndTurn(h, "send")
          /\ UNCHANGED <<local, arrivalBinding, overlap, result>>
     ELSE /\ EnterMessage(h, activity[h])
          /\ result' = [result EXCEPT ![h] = NoResult]
  /\ UNCHANGED <<conversations, genie_conversation_id, conv_id, msg_id, next_conv,
                 received, callKind, started, callOk, activity, fbSent, callVars>>
  /\ UNCHANGED pollVars

\* RouteCall never looking at the binding
RouteCallAlwaysStart(binding) == "start"

\* line 259: a bound id continues, anything else starts
RouteCall(binding) == IF binding # None THEN "continue" ELSE "start"

\* lines 256-269: read the binding and issue the start or the continue POST;
\* the task suspends until the POST is answered
Route(h) ==
  /\ pc[h] = "typing"
  /\ LET binding == MapGet(conversations, local[h])
     IN /\ genie_conversation_id' = [genie_conversation_id EXCEPT ![h] = binding]
        /\ callKind' = [callKind EXCEPT ![h] = RouteCall(binding)]
        /\ pc' = [pc EXCEPT ![h] =
                    IF RouteCall(binding) = "continue" THEN "continue_post"
                    ELSE "start_post"]
  /\ UNCHANGED <<conversations, local, conv_id, msg_id, result, next_conv, received,
                 started, callOk, arrivalBinding, overlap>>
  /\ UNCHANGED turnVars
  /\ UNCHANGED callVars
  /\ UNCHANGED pollVars

\* what a POST can end with: an HTTP status >= 400, an exception (transport,
\* credential fetch, body that is no JSON), or a 2xx body whose ids may be
\* missing
PostOutcomes == {"http_error", "exception", "ok"}

ErrorResult(error, text) ==
  [status |-> "error", conversation_id |-> NoId, message_id |-> NoId, response |-> text,
   error |-> error]

\* ask_question lines 178-184
StartAccepted(conv, msg) == conv # NoId /\ msg # NoId

\* ask_question lines 90-187: the start-conversation POST is answered
StartResponse(h, outcome, conv, msg) ==
  /\ pc[h] = "start_post"
  /\ outcome = "ok" \/ (conv = NoId /\ msg = NoId)
  /\ next_conv' = IF outcome = "ok" /\ StartAccepted(conv, msg)
                  THEN next_conv + 1 ELSE next_conv
  /\ IF outcome = "ok" /\ StartAccepted(conv, msg)
     THEN /\ pc' = [pc EXCEPT ![h] = "poll"]
          /\ conv_id' = [conv_id EXCEPT ![h] = conv]
          /\ msg_id' = [msg_id EXCEPT ![h] = msg]
          /\ callOk' = [callOk EXCEPT ![h] = TRUE]
          /\ caller' = [caller EXCEPT ![h] = "ask"]
          /\ attempt' = [attempt EXCEPT ![h] = 0]
          /\ max_attempts' = [max_attempts EXCEPT ![h] = BotMaxAttempts]
          /\ UNCHANGED <<conversations, result>>
     ELSE LET res == IF outcome = "ok"
                     THEN ErrorResult("Invalid response from Genie API",
                                      "Sorry, I couldn't start a conversation with Genie.")
                     ELSE ErrorResult("HTTP 500: Internal Server Error",
                                      "Sorry, I encountered an error contacting Databricks Genie.")
          IN /\ pc' = [pc EXCEPT ![h] = "reply"]
             /\ result' = [result EXCEPT ![h] = res]
             /\ conversations' = StoreBinding(conversations, local[h], res)
             /\ UNCHANGED <<conv_id, msg_id, callOk, caller, attempt, max_attempts>>
  /\ started' = IF outcome = "ok" /\ StartAccepted(conv, msg)
                THEN [started EXCEPT ![local[h]] = @ \cup {conv}] ELSE started
  /\ UNCHANGED <<local, genie_conversation_id, received, ret, requests, lastData,
                 nonTerminal, resultGets, callKind, arrivalBinding, overlap>>
  /\ UNCHANGED turnVars
  /\ UNCHANGED callVars

\* AfterFailedContinue dropping the binding that could not be continued
AfterFailedContinueEvicts(map, key) == [k \in DOMAIN map \ {key} |-> map[k]]

\* _on_message_activity lines 259-265 and 276-311: the error result of
\* continue_conversation (a remote 404 included) is only replied; the map
\* stays as it is
AfterFailedContinue(map, key) == map

\* continue_conversation lines 232-281: the messages POST is answered; a
\* missing message_id is polled for all the same (line 278)
ContinueResponse(h, outcome, msg) ==
  /\ pc[h] = "continue_post"
  /\ outcome = "ok" \/ msg = NoId
  /\ IF outcome = "ok"
     THEN /\ pc' = [pc EXCEPT ![h] = "poll"]
          /\ conv_id' = [conv_id EXCEPT ![h] = genie_conversation_id[h]]
          /\ msg_id' = [msg_id EXCEPT ![h] = msg]
          /\ callOk' = [callOk EXCEPT ![h] = TRUE]
          /\ caller' = [caller EXCEPT ![h] = "continue"]
          /\ attempt' = [attempt EXCEPT ![h] = 0]
          /\ max_attempts' = [max_attempts EXCEPT ![h] = BotMaxAttempts]
          /\ UNCHANGED <<result, conversations>>
     ELSE /\ pc' = [pc EXCEPT ![h] = "reply"]
          /\ conversations' = AfterFailedContinue(conversations, local[h])
          /\ result' = [result EXCEPT ![h] =
                          ErrorResult("HTTP 404: Not Found",
                                      "Sorry, I encountered an error continuing the conversation.")]
          /\ UNCHANGED <<conv_id, msg_id, callOk, caller, attempt, max_attempts>>
  /\ UNCHANGED <<local, genie_conversation_id, next_conv, received, ret,
                 requests, lastData, nonTerminal, resultGets, callKind, started, arrivalBinding,
                 overlap>>
  /\ UNCHANGED turnVars
  /\ UNCHANGED callVars

\* lines 306-310: the text sent for a result whose status is not success
ErrorReply(res) ==
  "Sorry, I encountered an error: " \o res.error
    \o "\n\nPlease make sure your Databricks Genie Space is properly configured."

\* CardWanted without the check of the ids
CardWantedAlways(res) == TRUE

\* _send_response_with_feedback line 329: the card needs both ids
CardWanted(res) == res.conversation_id # NoId /\ res.message_id # NoId

\* lines 276-311 with _send_response_with_feedback lines 324-330: the answer
\* or the error text is sent; a failed send of the answer is caught at line
\* 356, a failed send of the error text at line 313
Reply(h, ok) ==
  /\ pc[h] = "reply"
  /\ IF result[h].status = "success"
     THEN /\ Say(h, ok, result[h].response)
          /\ IF ~ok THEN EndTurn(h, "send")
             ELSE IF CardWanted(result[h])
             THEN Goto(h, "card")
             ELSE EndTurn(h, "none")
     ELSE /\ Say(h, ok, ErrorReply(result[h]))
          /\ IF ok THEN EndTurn(h, "none") ELSE Goto(h, "apologise")
  /\ UNCHANGED sendFrame
  /\ UNCHANGED pollVars

\* _send_response_with_feedback lines 332-358: the card with the two buttons
SendCard(h, ok) ==
  /\ pc[h] = "card"
  /\ Say(h, ok, FeedbackCard)
  /\ EndTurn(h, IF ok THEN "none" ELSE "send")
  /\ UNCHANGED sendFrame
  /\ UNCHANGED pollVars

\* the request is over; the task takes the next one
Complete(h) ==
  /\ pc[h] = "done"
  /\ pc' = [pc EXCEPT ![h] = "idle"]
  /\ local' = [local EXCEPT ![h] = ""]
  /\ genie_conversation_id' = [genie_conversation_id EXCEPT ![h] = None]
  /\ conv_id' = [conv_id EXCEPT ![h] = NoId]
  /\ msg_id' = [msg_id EXCEPT ![h] = NoId]
  /\ result' = [result EXCEPT ![h] = NoResult]
  /\ caller' = [caller EXCEPT ![h] = "poll"]
  /\ attempt' = [attempt EXCEPT ![h] = 0]
  /\ max_attempts' = [max_attempts EXCEPT ![h] = 0]
  /\ ret' = [ret EXCEPT ![h] = NoRet]
  /\ requests' = [requests EXCEPT ![h] = 0]
  /\ lastData' = [lastData EXCEPT ![h] = NoData]
  /\ nonTerminal' = [nonTerminal EXCEPT ![h] = 0]
  /\ resultGets' = [resultGets EXCEPT ![h] = <<>>]
  /\ callKind' = [callKind EXCEPT ![h] = "none"]
  /\ callOk' = [callOk EXCEPT ![h] = FALSE]
  /\ arrivalBinding' = [arrivalBinding EXCEPT ![h] = None]
  /\ overlap' = [overlap EXCEPT ![h] = FALSE]
  /\ activity' = [activity EXCEPT ![h] = NoActivity]
  /\ http' = [http EXCEPT ![h] = NoHttp]
  /\ sent' = [sent EXCEPT ![h] = <<>>]
  /\ fbSent' = [fbSent EXCEPT ![h] = ""]
  /\ UNCHANGED <<conversations, next_conv, received, started, callVars>>

MsgIds == {NoId, 1}

\* a message that asks a question in conversation conv
QuestionActivity(conv) ==
  InboundActivity("message", conv, QuestionText, <<>>, BotName, NoValue, 0, "ok")

\* the activities of the interleaved handlers: questions for the local ids
BotActivities == {QuestionActivity(l) : l \in LocalIds}

\* messages whose text is a question once the mention is stripped, and
\* messages that have no text left
TextActivities ==
  { InboundActivity("message", "A", t, m, BotName, NoValue, 0, "ok") :
      t \in {"", " ", Markup, "@GENIE: ",
             Markup \o " " \o QuestionText, "Genie, " \o QuestionText},
      m \in {<<>>, <<Mention(Markup, BotName)>>} }

\* the clicks on a feedback button and what else a client can put in value
FeedbackValues ==
  { Value("dict", "feedback", r, c, m) :
      r \in {"positive", "Negative", "meh", NumberVal, Absent, ""},
      c \in {"c1", Absent}, m \in {"m1", ""} }

ValueActivities ==
  { InboundActivity("message", "A", t, <<>>, BotName, v, 0, "ok") :
      t \in {CardText, ""},
      v \in FeedbackValues \cup {Value("text", Absent, Absent, Absent, Absent),
                                 Value("dict", "other", "positive", "c1", "m1")} }

\* activities that are no messages: without text, and with the text and the
\* value a question or a click would carry
OtherActivities ==
  { InboundActivity(ty, "A", "", <<>>, BotName, NoValue, n, "ok") :
      ty \in {"conversationUpdate", "typing"}, n \in {0, 1} }
    \cup { InboundActivity(ty, "A", QuestionText, <<>>, BotName, v, n, "ok") :
             ty \in {"conversationUpdate", "typing", "invoke"},
             v \in {NoValue, Value("dict", "feedback", "positive", "c1", "m1")},
             n \in {0, 1} }

Activities ==
  BotActivities \cup TextActivities \cup ValueActivities \cup OtherActivities
    \cup {QuestionActivity(Absent), QuestionActivity(""),
          InboundActivity("message", "A", QuestionText, <<>>, BotName, NoValue, 0, "denied")}

\* the interleaved handlers of question messages; the chat platform accepts
\* every send
Next ==
  \E h \in Tasks :
     \/ \E a \in BotActivities : Receive(h, a)
     \/ Route(h)
     \/ \E outcome \in PostOutcomes, conv \in {NoId, next_conv}, msg \in MsgIds :
           StartResponse(h, outcome, conv, msg)
     \/ \E outcome \in PostOutcomes, msg \in MsgIds : ContinueResponse(h, outcome, msg)
     \/ Poll(h)
     \/ Reply(h, TRUE)
     \/ SendCard(h, TRUE)
     \/ Complete(h)

Spec == Init /\ [][Next]_vars

\* one handler at a time, every kind of activity, sends that can fail
TurnNext ==
  \E h \in {"t1"} :
     \/ BadRequest(h)
     \/ \E a \in Activities : Receive(h, a)
     \/ \E ok \in BOOLEAN :
           \/ Welcome(h, ok)
           \/ Prompt(h, ok)
           \/ Apologise(h, ok)
           \/ FbReject(h, ok)
           \/ FbAck(h, ok)
           \/ FbError(h, ok)
           \/ Reply(h, ok)
           \/ SendCard(h, ok)
     \/ \E outcome \in FeedbackOutcomes : FbPost(h, outcome)
     \/ Route(h)
     \/ \E outcome \in PostOutcomes, conv \in {NoId, next_conv}, msg \in MsgIds :
           StartResponse(h, outcome, conv, msg)
     \/ \E outcome \in PostOutcomes, msg \in MsgIds : ContinueResponse(h, outcome, msg)
     \/ Poll(h)
     \/ Complete(h)

TurnSpec == Init /\ [][TurnNext]_vars

(***************************************************************************)
(* A direct call _format_query_result(result_data)                         *)
(***************************************************************************)
TableInit ==
  /\ conversations = [l \in {} |-> None]
  /\ pc = Idle("idle")
  /\ local = Idle("")
  /\ genie_conversation_id = Idle(None)
  /\ conv_id = Idle(NoId)
  /\ msg_id = Idle(NoId)
  /\ result = Idle(NoResult)
  /\ caller = Idle("poll")
  /\ attempt = Idle(0)
  /\ max_attempts = Idle(0)
  /\ ret = Idle(NoRet)
  /\ next_conv = 1
  /\ received = 0
  /\ requests = Idle(0)
  /\ lastData = Idle(NoData)
  /\ nonTerminal = Idle(0)
  /\ resultGets = Idle(<<>>)
  /\ callKind = Idle("none")
  /\ started = [l \in LocalIds |-> {}]
  /\ callOk = Idle(FALSE)
  /\ arrivalBinding = Idle(None)
  /\ overlap = Idle(FALSE)
  /\ activity = Idle(NoActivity)
  /\ http = Idle(NoHttp)
  /\ sent = Idle(<<>>)
  /\ fbSent = Idle("")
  /\ \E stmt \in Statements : table = Unformatted(stmt)
  /\ answer = NoAnswer
  /\ extraction = NoExtraction
  /\ credential = NoCredential
  /\ secondary = NoSecondary
  /\ timed = NoTimed
  /\ process = NoProcess

FormatCall ==
  /\ ~table.called
  /\ table' = [stmt |-> table.stmt, called |-> TRUE,
               lines |-> FormatQueryResult(table.stmt).lines,
               text |-> FormatQueryResult(table.stmt).text]
  /\ UNCHANGED <<conversations, pc, local, genie_conversation_id, conv_id, msg_id,
                 result, next_conv, received, callKind, started, callOk,
                 arrivalBinding, overlap>>
  /\ UNCHANGED turnVars
  /\ UNCHANGED pollVars
  /\ UNCHANGED <<answer, extraction, credential, secondary, timed, process>>

TableNext == FormatCall

TableSpec == TableInit /\ [][TableNext]_vars

(***************************************************************************)
(* A direct call _extract_response_with_attachments                        *)
(***************************************************************************)
AssemblyInit ==
  /\ conversations = [l \in {} |-> None]
  /\ pc = Idle("idle")
  /\ local = Idle("")
  /\ genie_conversation_id = Idle(None)
  /\ conv_id = Idle(NoId)
  /\ msg_id = Idle(NoId)
  /\ result = Idle(NoResult)
  /\ caller = Idle("poll")
  /\ attempt = Idle(0)
  /\ max_attempts = Idle(0)
  /\ ret = Idle(NoRet)
  /\ next_conv = 1
  /\ received = 0
  /\ requests = Idle(0)
  /\ lastData = Idle(NoData)
  /\ nonTerminal = Idle(0)
  /\ resultGets = Idle(<<>>)
  /\ callKind = Idle("none")
  /\ started = [l \in LocalIds |-> {}]
  /\ callOk = Idle(FALSE)
  /\ arrivalBinding = Idle(None)
  /\ overlap = Idle(FALSE)
  /\ activity = Idle(NoActivity)
  /\ http = Idle(NoHttp)
  /\ sent = Idle(<<>>)
  /\ fbSent = Idle("")
  /\ table = NoTable
  /\ extraction = NoExtraction
  /\ credential = NoCredential
  /\ secondary = NoSecondary
  /\ timed = NoTimed
  /\ process = NoProcess
  /\ \E data \in AssemblyData : \E fetch \in FetchLists(data) :
        answer = Unanswered(data, fetch)

ExtractCall ==
  /\ ~answer.called
  /\ answer' = [answer EXCEPT
                  !.called = TRUE,
                  !.texts = AppendedTexts(answer.data.attachments, answer.data.content),
                  !.gets = FetchRequests(answer.data.attachments, answer.data.content, 1),
                  !.out = ExtractResponseWithAttachments(answer.data, answer.fetch)]
  /\ UNCHANGED <<conversations, pc, local, genie_conversation_id, conv_id, msg_id,
                 result, next_conv, received, callKind, started, callOk,
                 arrivalBinding, overlap>>
  /\ UNCHANGED turnVars
  /\ UNCHANGED pollVars
  /\ UNCHANGED <<table, extraction, credential, secondary, timed, process>>

AssemblyNext == ExtractCall

AssemblySpec == AssemblyInit /\ [][AssemblyNext]_vars

(***************************************************************************)
(* A direct call _extract_user_message(turn_context): the bot is named     *)
(* Bot, John is another member of the chat                                 *)
(***************************************************************************)
BotMarkup == "<at>Bot</at>"
JohnMarkup == "<at>John</at>"

\* how the text begins, goes on and ends
TextHeads ==
  {"", "<at>Bot</at> ", "Bot: ", "@bot, ", " BOT-", "Bots ", "John, ",
   "<at>B<at>Databricks Genie</at>ot</at> ", "<at>Databricks Genie</at>"}
TextBodies == {"what is revenue?", "", "Bot ", "ask <at>John</at> "}
TextTails == {"", " <at>Bot</at>", " Bot"}

\* activity.entities: the mention entities, with or without text and name
EntityLists ==
  { <<>>,
    <<Mention(BotMarkup, "Bot")>>,
    <<Mention(BotMarkup, "Bot"), Mention(JohnMarkup, "John")>>,
    <<Mention("", "Bot")>>,
    <<Mention(BotMarkup, "")>> }

ExtractActivities ==
  { InboundActivity("message", "A", h \o b \o t, e, r, NoValue, 0, "ok") :
      h \in TextHeads, b \in TextBodies, t \in TextTails, e \in EntityLists,
      r \in {"Bot", ""} }

MessageInit ==
  /\ conversations = [l \in {} |-> None]
  /\ pc = Idle("idle")
  /\ local = Idle("")
  /\ genie_conversation_id = Idle(None)
  /\ conv_id = Idle(NoId)
  /\ msg_id = Idle(NoId)
  /\ result = Idle(NoResult)
  /\ caller = Idle("poll")
  /\ attempt = Idle(0)
  /\ max_attempts = Idle(0)
  /\ ret = Idle(NoRet)
  /\ next_conv = 1
  /\ received = 0
  /\ requests = Idle(0)
  /\ lastData = Idle(NoData)
  /\ nonTerminal = Idle(0)
  /\ resultGets = Idle(<<>>)
  /\ callKind = Idle("none")
  /\ started = [l \in LocalIds |-> {}]
  /\ callOk = Idle(FALSE)
  /\ arrivalBinding = Idle(None)
  /\ overlap = Idle(FALSE)
  /\ activity = Idle(NoActivity)
  /\ http = Idle(NoHttp)
  /\ sent = Idle(<<>>)
  /\ fbSent = Idle("")
  /\ table = NoTable
  /\ answer = NoAnswer
  /\ credential = NoCredential
  /\ secondary = NoSecondary
  /\ timed = NoTimed
  /\ process = NoProcess
  /\ \E a \in ExtractActivities : \E order \in Orders(PossibleNames(a)) :
        extraction = Unextracted(a, order)

ExtractMessageCall ==
  /\ ~extraction.called
  /\ extraction' = [extraction EXCEPT
                      !.called = TRUE,
                      !.marked = IF extraction.activity.text = "" THEN ""
                                 ELSE WithoutMarkup(extraction.activity),
                      !.out = ExtractUserMessage(extraction.activity, extraction.order)]
  /\ UNCHANGED <<conversations, pc, local, genie_conversation_id, conv_id, msg_id,
                 result, next_conv, received, callKind, started, callOk,
                 arrivalBinding, overlap>>
  /\ UNCHANGED turnVars
  /\ UNCHANGED pollVars
  /\ UNCHANGED <<table, answer, credential, secondary, timed, process>>

MessageNext == ExtractMessageCall

MessageSpec == MessageInit /\ [][MessageNext]_vars

(***************************************************************************)
(* Credential lookups of one client as time passes                         *)
(***************************************************************************)
CredentialInit ==
  /\ conversations = [l \in {} |-> None]
  /\ pc = Idle("idle")
  /\ local = Idle("")
  /\ genie_conversation_id = Idle(None)
  /\ conv_id = Idle(NoId)
  /\ msg_id = Idle(NoId)
  /\ result = Idle(NoResult)
  /\ caller = Idle("poll")
  /\ attempt = Idle(0)
  /\ max_attempts = Idle(0)
  /\ ret = Idle(NoRet)
  /\ next_conv = 1
  /\ received = 0
  /\ requests = Idle(0)
  /\ lastData = Idle(NoData)
  /\ nonTerminal = Idle(0)
  /\ resultGets = Idle(<<>>)
  /\ callKind = Idle("none")
  /\ started = [l \in LocalIds |-> {}]
  /\ callOk = Idle(FALSE)
  /\ arrivalBinding = Idle(None)
  /\ overlap = Idle(FALSE)
  /\ activity = Idle(NoActivity)
  /\ http = Idle(NoHttp)
  /\ sent = Idle(<<>>)
  /\ fbSent = Idle("")
  /\ table = NoTable
  /\ answer = NoAnswer
  /\ extraction = NoExtraction
  /\ secondary = NoSecondary
  /\ timed = NoTimed
  /\ process = NoProcess
  /\ credential = NoCredential

CredentialFrame ==
  /\ UNCHANGED <<conversations, pc, local, genie_conversation_id, conv_id, msg_id,
                 result, next_conv, received, callKind, started, callOk,
                 arrivalBinding, overlap>>
  /\ UNCHANGED turnVars
  /\ UNCHANGED pollVars
  /\ UNCHANGED <<table, answer, extraction, secondary, timed, process>>

\* time passes
Tick(d) ==
  /\ credential.now + d <= MaxTime
  /\ credential' = [credential EXCEPT !.now = @ + d]
  /\ CredentialFrame

\* _get_headers is called
GetHeaders ==
  /\ ~credential.pending
  /\ NeedsFetch(credential.token, credential.expires_at, credential.now)
        => credential.fetches < MaxFetches
  /\ credential' = LookupStarted(credential)
  /\ CredentialFrame

\* the token endpoint answers and _get_headers ends
TokenResponse(reply) ==
  /\ credential.pending
  /\ credential' = LookupEnded(credential, reply)
  /\ CredentialFrame

CredentialNext ==
  \/ \E d \in Ticks : Tick(d)
  \/ GetHeaders
  \/ \E reply \in TokenReplies : TokenResponse(reply)

CredentialSpec == CredentialInit /\ [][CredentialNext]_vars

(***************************************************************************)
(* Claims about _poll_for_response, checked under PollSpec                 *)
(***************************************************************************)
Answered(h) == lastData[h] # NoData
LastStatus(h) == DictGet(lastData[h].status, "")
PollEnded(h) == pc[h] = "returned"

\* the texts _extract_response_with_attachments can assemble for a payload,
\* over what the query-result fetches may contribute
AssembledAnswers(data) ==
  { JoinOrApology(Parts(data.attachments, f, data.content)) : f \in FetchLists(data) }

\* C1: whenever a status request was answered with COMPLETED, SUCCESS or
\* FINISHED, the poll has ended at that request by returning the answer
\* assembled from that payload.
C1_SuccessStatusReturnsAnswer ==
  \A h \in Tasks :
     (Answered(h) /\ ~lastData[h].exc /\ LastStatus(h) \in SuccessStatuses)
        => /\ PollEnded(h)
           /\ ret[h].kind = "return"
           /\ ret[h].value \in AssembledAnswers(lastData[h])

\* C2: after an answer whose status is in none of the three lists (an
\* unlisted string, the empty string, null, no status at all) the poll goes
\* on while attempts remain, and has ended only once max_attempts requests
\* were made, then with the timeout message.
IsUnknown(h) ==
  /\ Answered(h)
  /\ ~lastData[h].exc
  /\ LastStatus(h) \notin SuccessStatuses \cup FailureStatuses \cup InProgressStatuses

C2_UnknownStatusIsRetried ==
  \A h \in Tasks :
     IsUnknown(h)
        => /\ requests[h] < max_attempts[h] => (pc[h] = "poll" /\ ret[h] = NoRet)
           /\ PollEnded(h) => /\ requests[h] = max_attempts[h]
                              /\ ret[h] = [kind |-> "return", value |-> TimeoutMessage]

C2_Witness ==
  /\ IsUnknown("t1")
  /\ PollEnded("t1")
  /\ requests["t1"] = max_attempts["t1"]
  /\ requests["t1"] >= 2
  /\ nonTerminal["t1"] = requests["t1"]

\* the texts returned for a remote FAILED / ERROR status
FailureTexts ==
  { ErrorPrefix \o Str(ErrorMessage(d)) : d \in {e \in FailureData : ~ErrorMessageRaises(e)} }

\* C3: a poll all of whose max_attempts requests were answered with a
\* non-terminal status returns the timeout message, and that message is none
\* of the texts returned for a remote FAILED / ERROR status.
C3_TimeoutIsDistinct ==
  \A h \in Tasks :
     (PollEnded(h) /\ nonTerminal[h] = max_attempts[h])
        => /\ ret[h].kind = "return"
           /\ ret[h].value = "Sorry, Genie is taking too long to respond. Please try again."
           /\ ret[h].value \notin FailureTexts

C3_Witness ==
  /\ PollEnded("t1")
  /\ max_attempts["t1"] >= 2
  /\ nonTerminal["t1"] = max_attempts["t1"]
  /\ requests["t1"] = max_attempts["t1"]

\* the error message a payload carries, "Unknown error" when it carries none
CarriedMessage(data) ==
  IF data.error.kind = "object" /\ IsStr(data.error.message)
  THEN data.error.message
  ELSE "Unknown error"

\* C4: whenever a status request was answered with FAILED or ERROR, the poll
\* has ended at that request by returning (not raising) the failure text
\* with the payload's error message, "Unknown error" when the error field is
\* absent, null or has no message.
C4_FailureStatusReturnsMessage ==
  \A h \in Tasks :
     (Answered(h) /\ ~lastData[h].exc /\ LastStatus(h) \in FailureStatuses)
        => /\ PollEnded(h)
           /\ ret[h] = [kind |-> "return",
                        value |-> "Sorry, Genie encountered an error: "
                                    \o CarriedMessage(lastData[h])]

\* C5: after a status request that raised, the poll goes on while attempts
\* remain, the failed request having used up one attempt of the budget; when
\* it was the last attempt the poll has ended by raising, not by returning
\* the timeout message.
C5_TransientErrorRetriedThenRaised ==
  \A h \in Tasks :
     (Answered(h) /\ lastData[h].exc)
        => IF requests[h] < max_attempts[h]
           THEN pc[h] = "poll" /\ ret[h] = NoRet /\ attempt[h] = requests[h]
           ELSE PollEnded(h) /\ ret[h].kind = "raise"

C5_Witness ==
  /\ lastData["t1"].exc
  /\ PollEnded("t1")
  /\ ret["t1"].kind = "raise"
  /\ requests["t1"] = max_attempts["t1"]
  /\ nonTerminal["t1"] >= 1

C25_QueryResultFetchedAtMostOnce ==
  \A h \in Tasks :
     LET gets == resultGets[h]
     IN /\ \A i \in 1..Len(gets) : Truthy(gets[i][2])
        /\ \A i, j \in 1..Len(gets) : i # j => gets[i] # gets[j]


(***************************************************************************)
(* Claims about the conversation bindings, checked under Spec              *)
(***************************************************************************)
\* the task has made its start or continue call
Called(h) == callKind[h] # "none"

\* C7: a message that arrives for a local id that is already bound, and whose
\* handling overlaps no other handling of that local id, is answered by a
\* continue call made with the bound remote id, never by a start call.
C7_BoundIdIsContinued ==
  \A h \in Tasks :
     (Called(h) /\ ~overlap[h] /\ arrivalBinding[h] # None)
        => /\ callKind[h] = "continue"
           /\ genie_conversation_id[h] = arrivalBinding[h]
           /\ pc[h] = "poll" => conv_id[h] = arrivalBinding[h]

C7_Witness ==
  \E h \in Tasks :
     /\ pc[h] = "poll"
     /\ ~overlap[h]
     /\ arrivalBinding[h] # None
     /\ callKind[h] = "continue"
     /\ conv_id[h] = conversations[local[h]]

\* C8: the binding of a local id changes only in a step of a task whose
\* start call for that local id succeeded, and to the id that call returned;
\* and the step that ends a failed start or continue call (HTTP error,
\* exception, start answer without conversation_id or message_id) leaves the
\* binding map as it is.
C8_BindingOnlyAfterSuccessfulStart ==
  [][ /\ \A l \in LocalIds :
            MapGet(conversations', l) # MapGet(conversations, l)
               => \E h \in Tasks : /\ local[h] = l
                                   /\ callKind[h] = "start"
                                   /\ callOk[h]
                                   /\ MapGet(conversations', l) = conv_id[h]
      /\ \A h \in Tasks :
            (pc[h] # "reply" /\ pc'[h] = "reply" /\ ~callOk'[h])
               => conversations' = conversations ]_vars

C8_Witness ==
  \E h \in Tasks :
     /\ pc[h] = "reply"
     /\ callKind[h] = "start"
     /\ ~callOk[h]
     /\ result[h].status = "error"
     /\ \E l \in LocalIds \ {local[h]} : l \in DOMAIN conversations

\* C9: once the start call of a handler that overlaps no other handling of
\* its local id has succeeded and the handler has its result, the local id is
\* bound to the remote conversation id that call returned, however the poll
\* ended.
C9_SuccessfulStartIsBound ==
  \A h \in Tasks :
     (pc[h] = "reply" /\ callKind[h] = "start" /\ callOk[h] /\ ~overlap[h])
        => MapGet(conversations, local[h]) = conv_id[h]

\* C10, as stated: at most one remote conversation is ever started for a
\* local id, under every interleaving of the handlers, and a binding once
\* made is never replaced.
C10_SingleStartPerLocalId ==
  \A l \in LocalIds :
     /\ Cardinality(started[l]) <= 1
     /\ l \in DOMAIN conversations => started[l] = {conversations[l]}

\* C10, amended: a binding is replaced, and a start is made for a local id
\* that is bound, only by a handler that overlapped another handler of the
\* same local id.
C10_RebindingNeedsOverlap ==
  [][ /\ \A l \in DOMAIN conversations :
            (l \notin DOMAIN conversations' \/ conversations'[l] # conversations[l])
               => \E h \in Tasks : /\ local[h] = l
                                   /\ overlap[h]
                                   /\ callKind[h] = "start"
                                   /\ pc'[h] = "reply"
      /\ \A h \in Tasks :
            (callKind'[h] = "start" /\ ~overlap'[h])
               => /\ arrivalBinding'[h] = None
                  /\ pc'[h] \in {"start_post", "poll"}
                        => MapGet(conversations', local'[h]) = None ]_vars

C10_Witness ==
  \E h \in Tasks, g \in Tasks :
     /\ h # g
     /\ pc[h] = "reply" /\ pc[g] = "reply"
     /\ local[h] = local[g]
     /\ callKind[h] = "start" /\ callKind[g] = "start"
     /\ result[h].status = "success" /\ result[g].status = "success"
     /\ conv_id[h] # conv_id[g]
     /\ conversations[local[h]] = conv_id[g]
     /\ overlap[h] /\ overlap[g]

\* the task that takes the step, and the local id it is handling
Stepped(h) == pc'[h] # pc[h] \/ attempt'[h] # attempt[h]
Handled(h) == IF pc[h] = "idle" THEN local'[h] ELSE local[h]

\* C11: a step of the handler of a message for one local id leaves the
\* binding of every other local id as it is (not created, not changed, not
\* removed), and the binding the handler reads at line 257 is the one of its
\* own local id, whatever the other handlers have done in between.
C11_OtherBindingsUntouched ==
  [][ \A h \in Tasks :
         Stepped(h)
            => /\ \A l \in (DOMAIN conversations \cup DOMAIN conversations') \ {Handled(h)} :
                     /\ l \in DOMAIN conversations
                     /\ l \in DOMAIN conversations'
                     /\ conversations'[l] = conversations[l]
               /\ pc[h] = "typing"
                     => genie_conversation_id'[h] = MapGet(conversations, local[h]) ]_vars

C11_Witness ==
  \E h \in Tasks, g \in Tasks :
     /\ local[h] = "A" /\ local[g] = "B"
     /\ pc[h] = "reply" /\ callKind[h] = "start" /\ callOk[h]
     /\ pc[g] = "reply" /\ callKind[g] = "start" /\ callOk[g]
     /\ DOMAIN conversations = {"A", "B"}
     /\ conversations["A"] # conversations["B"]

(***************************************************************************)
(* Claims about one turn, checked under TurnSpec                           *)
(***************************************************************************)
\* C12: no step removes a binding: whatever is handled (a message, a click
\* on a feedback button, a conversation update, another activity, a
\* continuation that the remote service refuses), a local id that is bound
\* before the step is bound after it.
C12_BindingsNeverEvicted ==
  [][ \A l \in DOMAIN conversations : l \in DOMAIN conversations' ]_vars

C12_Witness ==
  \E h \in Tasks :
     /\ pc[h] = "done"
     /\ callKind[h] = "continue"
     /\ ~callOk[h]
     /\ result[h].status = "error"
     /\ MapGet(conversations, local[h]) = genie_conversation_id[h]

\* the texts that reached the user, in the order sent
Delivered(calls) ==
  LET F[i \in 0..Len(calls)] ==
        IF i = 0 THEN <<>>
        ELSE IF calls[i].ok THEN Append(F[i - 1], calls[i].text) ELSE F[i - 1]
  IN F[Len(calls)]

\* the activity is an authenticated message whose text is empty once the
\* mentions are stripped and the rest is trimmed
EmptyText(a) ==
  /\ a.type = "message" /\ a.auth = "ok"
  /\ \A order \in Orders(PossibleNames(a)) : ExtractUserMessage(a, order) = ""

\* C13: while and after a message whose text is empty after mention
\* stripping and trimming is handled, its handler has made no start call, no
\* continue call and no status request, its steps leave the binding map as
\* it is, and unless the message is a click on a feedback button all the
\* user is sent is the prompt (or the apology when sending the prompt
\* failed).
C13_EmptyTextCallsNothing ==
  [][ \A h \in Tasks :
         EmptyText(activity'[h])
            => /\ callKind'[h] = "none"
               /\ requests'[h] = 0
               /\ Stepped(h) => conversations' = conversations
               /\ ~IsFeedback(activity'[h].value)
                     => /\ pc'[h] \in {"prompt", "apologise", "done"}
                        /\ fbSent'[h] = ""
                        /\ Delivered(sent'[h]) \in {<<>>, <<PromptText>>, <<UnexpectedText>>} ]_vars

C13_Witness ==
  \E h \in Tasks :
     /\ pc[h] = "done"
     /\ EmptyText(activity[h])
     /\ activity[h].text # ""
     /\ sent[h] = <<Sent(PromptText, TRUE)>>
     /\ DOMAIN conversations # {}

\* the activity is an authenticated click on a feedback button
FeedbackClick(a) == a.type = "message" /\ a.auth = "ok" /\ IsFeedback(a.value)

\* C14: for a feedback action in which rating, conversation_id or
\* message_id is missing or empty, the handler sends no feedback request and
\* makes no other remote request (no start call, no continue call, no status
\* request).
C14_IncompleteFeedbackSendsNothing ==
  \A h \in Tasks :
     (FeedbackClick(activity[h]) /\ ~FeedbackComplete(activity[h].value))
        => /\ fbSent[h] = ""
           /\ callKind[h] = "none"
           /\ requests[h] = 0

\* C15: a rating POSTed to the feedback endpoint is the upper-cased form of
\* the rating the click carried, and it is POSITIVE or NEGATIVE.
C15_RatingIsUpperCasedPositiveOrNegative ==
  \A h \in Tasks :
     fbSent[h] # ""
        => /\ fbSent[h] = Upper(activity[h].value.rating)
           /\ fbSent[h] \in {"POSITIVE", "NEGATIVE"}

\* the business failures of a turn: the remote service reported FAILED or
\* ERROR, the poll ran out of attempts, the start or continue call ended in
\* an error result (remote 4xx / 5xx, exception), the feedback was malformed
RemoteFailed(h) == ret[h].kind = "return" /\ ret[h].value \in FailureTexts
PollTimedOut(h) == ret[h].kind = "return" /\ ret[h].value = TimeoutMessage
CallFailed(h) == callKind[h] # "none" /\ result[h].status = "error"
MalformedFeedback(h) ==
  FeedbackClick(activity[h]) /\ ~FeedbackComplete(activity[h].value)
BusinessFailure(h) ==
  RemoteFailed(h) \/ PollTimedOut(h) \/ CallFailed(h) \/ MalformedFeedback(h)

AllDelivered(h) == \A i \in 1..Len(sent[h]) : sent[h][i].ok

\* C16: a turn that ended with a business failure is answered with HTTP
\* 200, and when the chat platform accepted the sends the failure reached
\* the user as a chat message: the failure or timeout text of the poll, the
\* error text of the failed call, the refusal of the malformed feedback.
C16_BusinessFailureIsChatMessageAnd200 ==
  \A h \in Tasks :
     (pc[h] = "done" /\ BusinessFailure(h))
        => /\ http[h] = [status |-> 200, result |-> "ok"]
           /\ AllDelivered(h)
                 => /\ sent[h] # <<>>
                    /\ (RemoteFailed(h) \/ PollTimedOut(h))
                          => sent[h][1].text = ret[h].value
                    /\ CallFailed(h) => Delivered(sent[h]) = <<ErrorReply(result[h])>>
                    /\ MalformedFeedback(h) => Delivered(sent[h]) = <<RejectText>>

C16_Witness ==
  \E h \in Tasks :
     /\ pc[h] = "done"
     /\ PollTimedOut(h)
     /\ callKind[h] = "continue"
     /\ http[h].status = 200
     /\ Delivered(sent[h]) = <<TimeoutMessage>>
     /\ ~AllDelivered(h)

\* C17: a turn that met an infrastructure fault of the chat platform (the
\* adapter could not authenticate the request, a send failed in the
\* transport) is answered with a status other than 200.
C17_InfrastructureFaultIsNot200 ==
  \A h \in Tasks :
     (pc[h] = "done" /\ (activity[h].auth = "denied" \/ ~AllDelivered(h)))
        => http[h].status # 200

(***************************************************************************)
(* One poll of a client as time passes                                     *)
(***************************************************************************)
\* a client that has no token yet, and one that fetched a token for 90
\* seconds at time 0
TimedCredentials ==
  { NoCredential,
    LookupEnded(LookupStarted(NoCredential), TokenReply("ok", TRUE, 90)) }

TimedInit ==
  /\ conversations = [l \in {} |-> None]
  /\ pc = Idle("idle")
  /\ local = Idle("")
  /\ genie_conversation_id = Idle(None)
  /\ conv_id = Idle(NoId)
  /\ msg_id = Idle(NoId)
  /\ result = Idle(NoResult)
  /\ caller = Idle("poll")
  /\ attempt = Idle(0)
  /\ max_attempts = Idle(0)
  /\ ret = Idle(NoRet)
  /\ next_conv = 1
  /\ received = 0
  /\ requests = Idle(0)
  /\ lastData = Idle(NoData)
  /\ nonTerminal = Idle(0)
  /\ resultGets = Idle(<<>>)
  /\ callKind = Idle("none")
  /\ started = [l \in LocalIds |-> {}]
  /\ callOk = Idle(FALSE)
  /\ arrivalBinding = Idle(None)
  /\ overlap = Idle(FALSE)
  /\ activity = Idle(NoActivity)
  /\ http = Idle(NoHttp)
  /\ sent = Idle(<<>>)
  /\ fbSent = Idle("")
  /\ table = NoTable
  /\ answer = NoAnswer
  /\ extraction = NoExtraction
  /\ secondary = NoSecondary
  /\ timed \in {TimedPoll(m) : m \in 0..MaxPolls}
  /\ process = NoProcess
  /\ credential \in TimedCredentials

TimedFrame ==
  /\ UNCHANGED <<conversations, pc, local, genie_conversation_id, conv_id, msg_id,
                 result, next_conv, received, callKind, started, callOk,
                 arrivalBinding, overlap>>
  /\ UNCHANGED turnVars
  /\ UNCHANGED pollVars
  /\ UNCHANGED <<table, answer, extraction, secondary, process>>

\* line 355: _get_headers is called
PollGetHeaders ==
  /\ timed.pc = "start"
  /\ credential' = LookupStarted(credential)
  /\ timed' = IF credential'.pending THEN [timed EXCEPT !.pc = "token"]
              ELSE WithHeaders(timed, credential')
  /\ TimedFrame

\* line 355: the token endpoint answers; a failed lookup leaves the poll
PollTokenResponse(reply) ==
  /\ timed.pc = "token"
  /\ credential' = LookupEnded(credential, reply)
  /\ timed' = IF reply.kind = "ok" THEN WithHeaders(timed, credential')
              ELSE [timed EXCEPT !.pc = "raised"]
  /\ TimedFrame

\* lines 358-395: one status request
StatusRequest(outcome) ==
  /\ timed.pc = "loop"
  /\ LoopContinues(timed.attempt, timed.max_attempts)
  /\ timed' = [AfterStatusRequest(timed, outcome) EXCEPT
                 !.requests = Append(@, StatusRequestOf(timed, credential.now))]
  /\ UNCHANGED credential
  /\ TimedFrame

\* lines 380, 386 and 392: the delay, and the time the request took
Sleep(d) ==
  /\ timed.pc = "sleep"
  /\ credential.now + d <= MaxTime
  /\ credential' = [credential EXCEPT !.now = @ + d]
  /\ timed' = [timed EXCEPT !.pc = "loop"]
  /\ TimedFrame

\* lines 397-399
TimedExhausted ==
  /\ timed.pc = "loop"
  /\ ~LoopContinues(timed.attempt, timed.max_attempts)
  /\ timed' = [timed EXCEPT !.pc = "done"]
  /\ UNCHANGED credential
  /\ TimedFrame

TimedNext ==
  \/ PollGetHeaders
  \/ \E reply \in TokenReplies : PollTokenResponse(reply)
  \/ \E outcome \in {"terminal", "pending", "exception"} : StatusRequest(outcome)
  \/ \E d \in Ticks : Sleep(d)
  \/ TimedExhausted

TimedSpec == TimedInit /\ [][TimedNext]_vars

(***************************************************************************)
(* Calls of get_bot in one process                                         *)
(***************************************************************************)
MaxCalls == 3

ProcessInit ==
  /\ conversations = [l \in {} |-> None]
  /\ pc = Idle("idle")
  /\ local = Idle("")
  /\ genie_conversation_id = Idle(None)
  /\ conv_id = Idle(NoId)
  /\ msg_id = Idle(NoId)
  /\ result = Idle(NoResult)
  /\ caller = Idle("poll")
  /\ attempt = Idle(0)
  /\ max_attempts = Idle(0)
  /\ ret = Idle(NoRet)
  /\ next_conv = 1
  /\ received = 0
  /\ requests = Idle(0)
  /\ lastData = Idle(NoData)
  /\ nonTerminal = Idle(0)
  /\ resultGets = Idle(<<>>)
  /\ callKind = Idle("none")
  /\ started = [l \in LocalIds |-> {}]
  /\ callOk = Idle(FALSE)
  /\ arrivalBinding = Idle(None)
  /\ overlap = Idle(FALSE)
  /\ activity = Idle(NoActivity)
  /\ http = Idle(NoHttp)
  /\ sent = Idle(<<>>)
  /\ fbSent = Idle("")
  /\ table = NoTable
  /\ answer = NoAnswer
  /\ extraction = NoExtraction
  /\ secondary = NoSecondary
  /\ timed = NoTimed
  /\ credential = NoCredential
  /\ process \in {Process(e, env) : e \in EntryPoints, env \in SUBSET (Required \cup Optional)}

\* a request reaches messages, which calls get_bot (app.py line 62,
\* function_app.py line 71)
GetBot(ctor) ==
  /\ process.calls < MaxCalls
  /\ process' = GetBotCall(process, ctor)
  /\ UNCHANGED <<conversations, pc, local, genie_conversation_id, conv_id, msg_id,
                 result, next_conv, received, callKind, started, callOk,
                 arrivalBinding, overlap>>
  /\ UNCHANGED turnVars
  /\ UNCHANGED pollVars
  /\ UNCHANGED <<table, answer, extraction, credential, secondary, timed>>

ProcessNext == \E ctor \in {"ok", "raises"} : GetBot(ctor)

ProcessSpec == ProcessInit /\ [][ProcessNext]_vars

(***************************************************************************)
(* Direct calls of _extract_response_text                                  *)
(***************************************************************************)
TwentyOneChars == "Twenty-one characters"
TwentyChars == "Twenty chars exactly"
ShortText == "Short answer"

RECURSIVE Repeat(_, _)
Repeat(str, n) == IF n = 0 THEN "" ELSE str \o Repeat(str, n - 1)

\* a query text whose JSON form is longer than the diagnostic text shows
LongQuery == Repeat("SELECT region, SUM(revenue) FROM sales GROUP BY region; ", 40)

FieldValues ==
  { JStr(TwentyOneChars), JStr(TwentyChars), JStr(ShortText),
    JDict(<<Pair("content", JStr(ShortText))>>),
    JDict(<<Pair("text", JStr(Plain))>>),
    JDict(<<Pair("id", JStr("m1"))>>),
    JNum(7) }

SecondaryAttachments ==
  { <<>>,
    <<Pair("attachments", JList(<<>>))>>,
    <<Pair("attachments", JList(<<JDict(<<Pair("attachment_id", JStr("a1"))>>)>>))>>,
    <<Pair("attachments", JList(<<JStr("note")>>))>>,
    <<Pair("attachments", JList(<<JDict(<<Pair("text", JDict(<<Pair("content", JStr(Content))>>))>>)>>))>>,
    <<Pair("attachments", JList(<<JDict(<<Pair("text", JStr(Plain))>>)>>))>>,
    <<Pair("attachments", JList(<<JDict(<<Pair("text", JDict(<<Pair("id", JStr("t1"))>>)),
                                          Pair("content", JStr(ShortText))>>)>>))>>,
    <<Pair("attachments", JList(<<JDict(<<Pair("description", JStr(Description))>>)>>))>>,
    <<Pair("attachments", JList(<<JDict(<<Pair("text", JDict(<<Pair("content", JNum(7))>>))>>)>>))>>,
    <<Pair("attachments", JList(<<JDict(<<Pair("attachment_id", JStr("a1"))>>),
                                  JDict(<<Pair("text", JDict(<<Pair("content", JStr(Content))>>)),
                                          Pair("description", JStr(Description))>>)>>))>> }

FieldNames == {TopLevelFields[i] : i \in 1..Len(TopLevelFields)}

\* up to two of the top-level fields, in either order of the body
SecondaryFields ==
  {<<>>}
    \cup {<<Pair(f, v)>> : f \in FieldNames, v \in FieldValues}
    \cup {<<Pair(f, v), Pair(g, w)>> :
            f \in FieldNames, g \in FieldNames \ {"content"}, v \in FieldValues,
            w \in {JStr(TwentyOneChars), JStr(ShortText), JDict(<<Pair("content", JStr(ShortText))>>)}}

SecondaryResponses ==
  {JDict(a \o t) : a \in SecondaryAttachments, t \in {s \in SecondaryFields : Len(s) < 2 \/ s[1].key # s[2].key}}
    \cup {JDict(<<Pair("status", JStr("COMPLETED"))>> \o t \o <<Pair("query_text", JStr(LongQuery))>>) :
            t \in {<<>>, <<Pair("content", JStr(ShortText))>>, <<Pair("result", JStr(TwentyOneChars))>>}}

SecondaryInit ==
  /\ conversations = [l \in {} |-> None]
  /\ pc = Idle("idle")
  /\ local = Idle("")
  /\ genie_conversation_id = Idle(None)
  /\ conv_id = Idle(NoId)
  /\ msg_id = Idle(NoId)
  /\ result = Idle(NoResult)
  /\ caller = Idle("poll")
  /\ attempt = Idle(0)
  /\ max_attempts = Idle(0)
  /\ ret = Idle(NoRet)
  /\ next_conv = 1
  /\ received = 0
  /\ requests = Idle(0)
  /\ lastData = Idle(NoData)
  /\ nonTerminal = Idle(0)
  /\ resultGets = Idle(<<>>)
  /\ callKind = Idle("none")
  /\ started = [l \in LocalIds |-> {}]
  /\ callOk = Idle(FALSE)
  /\ arrivalBinding = Idle(None)
  /\ overlap = Idle(FALSE)
  /\ activity = Idle(NoActivity)
  /\ http = Idle(NoHttp)
  /\ sent = Idle(<<>>)
  /\ fbSent = Idle("")
  /\ table = NoTable
  /\ answer = NoAnswer
  /\ extraction = NoExtraction
  /\ secondary \in {Unread(r) : r \in SecondaryResponses}
  /\ timed = NoTimed
  /\ process = NoProcess
  /\ credential = NoCredential

ExtractTextCall ==
  /\ ~secondary.called
  /\ secondary' = [secondary EXCEPT !.called = TRUE,
                                    !.parts = ExtractResponseText(secondary.response).parts,
                                    !.out = ExtractResponseText(secondary.response).out]
  /\ UNCHANGED <<conversations, pc, local, genie_conversation_id, conv_id, msg_id,
                 result, next_conv, received, callKind, started, callOk,
                 arrivalBinding, overlap>>
  /\ UNCHANGED turnVars
  /\ UNCHANGED pollVars
  /\ UNCHANGED <<table, answer, extraction, credential, timed, process>>

SecondaryNext == ExtractTextCall

SecondarySpec == SecondaryInit /\ [][SecondaryNext]_vars

(***************************************************************************)
(* Claims about _format_query_result, checked under TableSpec              *)
(***************************************************************************)
\* the call was made on a statement that has rows, so a table was built
Rendered == table.called /\ table.stmt.shape = "ok" /\ Len(table.stmt.rows) > 0

StartsWith(str, prefix) ==
  Len(str) >= Len(prefix) /\ SubSeq(str, 1, Len(prefix)) = prefix

Contains(str, sub) ==
  \E i \in 1..(Len(str) + 1) :
     i + Len(sub) - 1 <= Len(str) /\ SubSeq(str, i, i + Len(sub) - 1) = sub

\* the columns a row is rendered in
Range(a, b) == {i \in 1..b : i >= a}
CellsOf(row, k) == Range(1, Min(Len(row), k))

\* where the text of column i starts in a line laid out with these widths
RECURSIVE Offset(_, _)
Offset(widths, i) == IF i = 1 THEN 0 ELSE Offset(widths, i - 1) + widths[i - 1] + 3

Segment(line, widths, i) ==
  SubSeq(line, Offset(widths, i) + 1, Offset(widths, i) + widths[i])

\* seg is text followed by spaces up to the width
Padded(seg, text, width) ==
  /\ Len(seg) = width
  /\ StartsWith(seg, text)
  /\ \A j \in Range(Len(text) + 1, width) : SubSeq(seg, j, j) = " "

\* C18: a call on total_rows rows builds min(total_rows, 10) row lines, the
\* lines of the first rows in their order (row i begins with its number i),
\* between the separator and the closing fence; the line
\* (K more rows...) with K = total_rows - 10 follows the fence exactly when
\* total_rows > 10; without rows nothing is built.
C18_FirstTenRowsAndSuffix ==
  table.called =>
     LET rows == table.stmt.rows
         n == Len(rows)
         shown == Min(n, 10)
         lines == table.lines
     IN IF ~Rendered THEN lines = <<>> /\ table.text = ""
        ELSE /\ Len(lines) = 4 + shown + (IF n > 10 THEN 1 ELSE 0)
             /\ lines[4 + shown] = Fence
             /\ \A i \in 1..shown :
                   /\ lines[3 + i] = RowLine(rows[i], ColWidths(Columns(table.stmt), rows))
                   /\ lines[3 + i] = NatStr(i) \/ StartsWith(lines[3 + i], NatStr(i) \o " ")
             /\ n > 10 => lines[Len(lines)] = "\n(" \o NatStr(n - 10) \o " more rows...)"
             /\ n <= 10 => lines[Len(lines)] = Fence
             /\ Contains(table.text, "more rows...)") <=> n > 10
             /\ table.text = Join(lines, "\n")

C18_Witness ==
  /\ Rendered
  /\ Len(table.stmt.rows) = 12
  /\ Len(table.lines) = 15
  /\ table.lines[15] = "\n(2 more rows...)"
  /\ StartsWith(table.lines[13], "10")

\* the table of columns id, name and rows [1, "a"], [2, None]
IdNameTable ==
  Statement("ok", <<"id", "name">>,
            <<<<IntCell(1), StrCell("a")>>, <<IntCell(2), NullCell>>>>)

\* C19, as stated: for columns id, name and rows [1, "a"], [2, None] the
\* text returned contains the header, a separator of - and + that matches
\* the column widths, the row text "1 | a", the row text "2 | NULL", and no
\* row-truncation suffix.
C19_IdNameTableAsStated ==
  (table.called /\ table.stmt = IdNameTable)
     => /\ Contains(table.text, "id | name")
        /\ Contains(table.text, "---+-----")
        /\ Contains(table.text, "1 | a")
        /\ Contains(table.text, "2 | NULL")
        /\ ~Contains(table.text, "more rows...)")

\* C19, amended: for that table the lines built are the fence, the header
\* "id | name", the separator "---+-----", the rows "1  | a   " and
\* "2  | NULL" (every cell padded to the width of its column, 2 and 4, the
\* null cell rendered as NULL) and the fence, with no row-truncation suffix.
C19_IdNameTablePadded ==
  (table.called /\ table.stmt = IdNameTable)
     => /\ table.lines = <<"\n" \o Fence, "id | name", "---+-----",
                           "1  | a   ", "2  | NULL", Fence>>
        /\ table.text = Join(table.lines, "\n")
        /\ ~Contains(table.text, "more rows...)")

C19_Witness ==
  /\ table.called
  /\ table.stmt = IdNameTable
  /\ Contains(table.text, "2  | NULL")
  /\ ~Contains(table.text, "2 | NULL")

\* the width the claim gives column i: the widest of the header and of the
\* texts rendered in that column among the first 10 rows (NULL for a null)
ClaimedWidth(stmt, i) ==
  LET header == Len(Str(Columns(stmt)[i]))
      cells == {Len(CellText(stmt.rows[r][i])) :
                  r \in {r \in 1..Min(Len(stmt.rows), 10) : i <= Len(stmt.rows[r])}}
      all == cells \cup {header}
  IN CHOOSE w \in all : \A v \in all : v <= w

\* C20: with each column as wide as its header and its widest rendered cell
\* among the first 10 rows (4 for a null), the header line holds every
\* header, and every row line every rendered cell, left-justified and padded
\* with spaces to exactly that width; neighbours are joined by " | "; the
\* separator holds one run of - of that width per column, joined by "-+-".
C20_ColumnsPaddedToWidth ==
  Rendered =>
     LET stmt == table.stmt
         k == Len(Columns(stmt))
         W == [i \in 1..k |-> ClaimedWidth(stmt, i)]
         lines == table.lines
         LineLen(m) == IF m = 0 THEN 0 ELSE Offset(W, m) + W[m]
     IN /\ Len(lines[2]) = LineLen(k)
        /\ Len(lines[3]) = LineLen(k)
        /\ \A i \in 1..k :
              /\ Padded(Segment(lines[2], W, i), Str(Columns(stmt)[i]), W[i])
              /\ Segment(lines[3], W, i) = Dashes(W[i])
              /\ i > 1 => /\ SubSeq(lines[2], Offset(W, i) - 2, Offset(W, i)) = " | "
                          /\ SubSeq(lines[3], Offset(W, i) - 2, Offset(W, i)) = "-+-"
        /\ \A r \in 1..Min(Len(stmt.rows), 10) :
              LET line == lines[3 + r]
                  row == stmt.rows[r]
              IN /\ Len(line) = LineLen(Min(Len(row), k))
                 /\ \A i \in CellsOf(row, k) :
                       /\ Padded(Segment(line, W, i), CellText(row[i]), W[i])
                       /\ i > 1 => SubSeq(line, Offset(W, i) - 2, Offset(W, i)) = " | "

C20_Witness ==
  /\ Rendered
  /\ table.stmt.columns = <<"k", "v">>
  /\ Len(table.stmt.rows) = 12
  /\ \A r \in 1..12 : Len(table.stmt.rows[r]) = 2 /\ table.stmt.rows[r][2] = NullCell
  /\ table.lines[3] = "---+-----"
  /\ table.lines[13] = "10 | NULL"

\* a string without its trailing spaces
RECURSIVE RStrip(_)
RStrip(str) ==
  IF Len(str) > 0 /\ SubSeq(str, Len(str), Len(str)) = " "
  THEN RStrip(SubSeq(str, 1, Len(str) - 1)) ELSE str

\* the first position at or after i where sub occurs in str, 0 when none
RECURSIVE Find(_, _, _)
Find(str, sub, i) ==
  IF i + Len(sub) - 1 > Len(str) THEN 0
  ELSE IF SubSeq(str, i, i + Len(sub) - 1) = sub THEN i
  ELSE Find(str, sub, i + 1)

\* the fields of a table line: the texts between " | ", trailing spaces off
RECURSIVE Fields(_)
Fields(line) ==
  LET at == Find(line, " | ", 1)
  IN IF at = 0 THEN <<RStrip(line)>>
     ELSE <<RStrip(SubSeq(line, 1, at - 1))>> \o Fields(SubSeq(line, at + 3, Len(line)))

\* C21: with schema columns the header line holds one header per schema
\* column, the column's name at the column's position; without schema
\* columns it holds Column 1 .. Column N, N the number of cells of the first
\* data row.
C21_HeadersFromSchemaOrFirstRow ==
  Rendered =>
     LET cols == table.stmt.columns
         headers == Fields(table.lines[2])
     IN IF Len(cols) > 0
        THEN /\ Len(headers) = Len(cols)
             /\ \A i \in 1..Len(cols) : cols[i] # Absent => headers[i] = cols[i]
        ELSE /\ Len(headers) = Len(table.stmt.rows[1])
             /\ \A i \in 1..Len(headers) : headers[i] = "Column " \o NatStr(i)

C21_Witness ==
  /\ Rendered
  /\ table.stmt.columns = <<>>
  /\ Len(table.stmt.rows) = 2
  /\ Len(table.stmt.rows[1]) = 1
  /\ Len(table.stmt.rows[2]) = 3
  /\ table.lines[2] = "Column 1"

(***************************************************************************)
(* Claims about _extract_response_with_attachments, checked under          *)
(* AssemblySpec                                                            *)
(***************************************************************************)
Assembled == answer.called /\ answer.out.kind = "return"

\* the three sources of an attachment's explanatory text
QueryDescription(att) == att.qdesc
TextContentField(att) == IF att.tkind = "dict" THEN att.tval ELSE Absent
PlainText(att) == IF att.tkind = "str" THEN att.tval ELSE Absent

\* the explanatory text of an attachment: the first source that yields one
Explanation(att) ==
  IF Truthy(QueryDescription(att)) THEN QueryDescription(att)
  ELSE IF TextContentField(att) # Absent THEN TextContentField(att)
  ELSE PlainText(att)

\* C22: in an assembly that returned, the explanatory text of an attachment
\* is among the parts exactly when it is non-empty, at least 10 characters
\* long and different from the question.
C22_TextIncludedFromTenCharacters ==
  Assembled =>
     \A i \in 1..Len(answer.data.attachments) :
        LET att == answer.data.attachments[i]
            text == Explanation(att)
        IN (att.isdict /\ (IsStr(text) \/ ~Truthy(text)))
             => /\ answer.texts[i] \in {<<>>, <<text>>}
                /\ answer.texts[i] = <<text>>
                     <=> (Truthy(text) /\ Len(text) >= 10 /\ text # answer.data.content)

\* C23: the text an attachment contributes is its query description when
\* that yields a value, else its text content when the text is an object
\* with content, else its plain string text; a source of lower priority
\* contributes only when every source above it yields nothing.
C23_TextSourcePriority ==
  Assembled =>
     \A i \in 1..Len(answer.data.attachments) :
        LET att == answer.data.attachments[i]
            a == QueryDescription(att)
            b == TextContentField(att)
            c == PlainText(att)
            Usable(x) == IsStr(x) /\ Len(x) > 10 /\ x # answer.data.content
            taken == answer.texts[i]
        IN att.isdict =>
             /\ Truthy(a) => taken = IF Usable(a) THEN <<a>> ELSE <<>>
             /\ (~Truthy(a) /\ b # Absent) => taken = IF Usable(b) THEN <<b>> ELSE <<>>
             /\ (~Truthy(a) /\ b = Absent /\ c # Absent)
                   => taken = IF Usable(c) THEN <<c>> ELSE <<>>
             /\ (~Truthy(a) /\ b = Absent /\ c = Absent) => taken = <<>>

C23_Witness ==
  /\ Assembled
  /\ Len(answer.data.attachments) = 2
  /\ answer.data.attachments[1] = Att(TRUE, Description, "dict", Content, "a1", Absent)
  /\ answer.data.attachments[2] = Att(TRUE, "", "dict", Content, "", "a2")
  /\ answer.texts = <<(<<Description>>), (<<Content>>)>>

RECURSIVE Concat(_)
Concat(seqs) == IF seqs = <<>> THEN <<>> ELSE Head(seqs) \o Concat(Tail(seqs))

\* C24: every call returns a string: the texts and tables of the attachments
\* in attachment order, an attachment's text before its table, joined by a
\* blank line, or the apology when there is none.
C24_AssemblyJoinsOrApologises ==
  answer.called =>
     LET atts == answer.data.attachments
         fetch == answer.fetch
         id(att) == IF Truthy(att.attachment_id) THEN att.attachment_id ELSE att.id
         pieces == [i \in 1..Len(atts) |->
                      IF atts[i].isdict
                      THEN answer.texts[i]
                             \o (IF Truthy(id(atts[i])) /\ fetch[i] # ""
                                 THEN <<fetch[i]>> ELSE <<>>)
                      ELSE <<>>]
         parts == Concat(pieces)
     IN /\ answer.out.kind = "return"
        /\ answer.out.value = IF parts = <<>> THEN ApologyMessage ELSE Join(parts, "\n\n")

(***************************************************************************)
(* Claims about _extract_user_message, checked under MessageSpec           *)
(***************************************************************************)
\* the text has neither leading nor trailing white space
Trimmed(str) == ~IsSpace(Char(str, 1)) /\ ~IsSpace(Char(str, Len(str)))

\* C26: the text returned is trimmed and holds none of the mention markups
\* that the mention entities report; for the text
\* <at>Bot</at> what is revenue? with the markup <at>Bot</at> reported it is
\* what is revenue?
C26_NoReportedMarkupRemains ==
  extraction.called =>
     LET a == extraction.activity
     IN /\ Trimmed(extraction.out)
        /\ \A i \in 1..Len(a.mentions) :
              a.mentions[i].text # "" => ~Contains(extraction.out, a.mentions[i].text)
        /\ (a.text = "<at>Bot</at> what is revenue?" /\ Len(a.mentions) > 0
              /\ a.mentions[1].text = BotMarkup)
             => extraction.out = "what is revenue?"

\* the prefixes of str that are the name, in any case, after optional white
\* space and an optional @, followed by any of : , -
LeadingName(str, name) ==
  { e \in 1..Len(str) :
      \E s \in 0..e : \E n \in 0..e :
         /\ \A i \in 1..s : IsSpace(Char(str, i))
         /\ n \in {s, s + 1} /\ (n = s + 1 => Char(str, n) = "@")
         /\ n + Len(name) <= e
         /\ Lower(SubSeq(str, n + 1, n + Len(name))) = Lower(name)
         /\ \A i \in (n + Len(name) + 1)..e : Char(str, i) \in {":", ",", "-"} }

\* C27: the text returned is the text without markup, trimmed, from which at
\* most a leading occurrence of the bot's name Bot (after an optional @, in
\* any case, with : , - behind it) has been taken: later occurrences of the
\* name and every other leading word stay.
C27_OnlyLeadingBotNameStripped ==
  extraction.called =>
     \/ extraction.out = Strip(extraction.marked)
     \/ \E e \in LeadingName(extraction.marked, "Bot") :
           extraction.out = Strip(From(extraction.marked, e + 1))

(***************************************************************************)
(* Claims about _get_headers, checked under CredentialSpec                 *)
(***************************************************************************)
\* C28: a lookup requests a token exactly when none is cached or the time of
\* the lookup is later than the cached expiry minus 60; a lookup that
\* requests none returns the cached token and leaves token and expiry as
\* they were; after a request that returned a token, the cached expiry is
\* the time of the lookup plus the expires_in of the answer.
C28_FetchExactlyWhenAbsentOrNearExpiry ==
  LET l == credential.last
  IN l.outcome # "none" =>
       /\ l.posted <=> (l.cached = None \/ l.at > l.expiry - 60)
       /\ ~l.posted => /\ l.outcome = "cached"
                       /\ l.returned = l.cached
                       /\ credential.token = l.cached
                       /\ credential.expires_at = l.expiry
       /\ l.outcome = "fetched" => /\ credential.expires_at = l.at + l.expires_in
                                   /\ credential.token = l.returned
                                   /\ l.returned # l.cached
       /\ l.outcome \in {"posting", "raised"} => /\ credential.token = l.cached
                                                 /\ credential.expires_at = l.expiry

\* a token fetched at time 0 for 90 seconds is still returned at time 30, and
\* fetched anew at time 31
C28_Witness ==
  /\ credential.last.outcome = "cached"
  /\ credential.last.cached # None
  /\ credential.last.at = credential.last.expiry - 60
  /\ credential.token = credential.last.returned

(***************************************************************************)
(* Claims about _extract_response_text, checked under SecondarySpec        *)
(***************************************************************************)
\* the place of a top-level field in the order content, text, description,
\* message, response, result
FieldIndex(field) == CHOOSE i \in 1..Len(TopLevelFields) : TopLevelFields[i] = field

\* the top-level fields whose value is a plain string shorter than 20 characters
ShortFields(response) ==
  {f \in FieldNames : /\ Has(response, f)
                      /\ Get(response, f).t = "str"
                      /\ Get(response, f).s # ""
                      /\ Len(Get(response, f).s) < 20}

\* no attachment of the response yields text
NoAttachmentText == secondary.called /\ AttachmentParts(secondary.response) = <<>>

DumpHead == "(!) Debug - Full response:\n'''json\n"
DumpTail == "\n'''"
EndsWith(str, suffix) ==
  Len(str) >= Len(suffix) /\ SubSeq(str, Len(str) - Len(suffix) + 1, Len(str)) = suffix
JsonPortion(out) == SubSeq(out, Len(DumpHead) + 1, Len(out) - Len(DumpTail))

\* the output is the diagnostic text, its JSON portion the first 2000
\* characters at most of the response written as JSON
IsDump ==
  /\ StartsWith(secondary.out, DumpHead)
  /\ EndsWith(secondary.out, DumpTail)
  /\ Len(JsonPortion(secondary.out)) <= 2000
  /\ StartsWith(JsonDumps(secondary.response, 0), JsonPortion(secondary.out))
  /\ \/ Len(JsonPortion(secondary.out)) = 2000
     \/ JsonPortion(secondary.out) = JsonDumps(secondary.response, 0)

\* the parts come from top-level fields, in the fixed order, and are the output
PartsInFieldOrder ==
  /\ \A i \in 1..Len(secondary.parts) : secondary.parts[i].source \in FieldNames
  /\ \A i, j \in 1..Len(secondary.parts) :
        i < j => FieldIndex(secondary.parts[i].source) < FieldIndex(secondary.parts[j].source)
  /\ \A f \in FieldNames :
        (\E i \in 1..Len(secondary.parts) : secondary.parts[i].source = f)
          <=> /\ Has(secondary.response, f)
              /\ LET value == Get(secondary.response, f)
                 IN \/ value.t = "str" /\ Len(value.s) > 20
                    \/ value.t = "dict" /\ (Has(value, "content") \/ Has(value, "text"))
  /\ secondary.parts # <<>> =>
        secondary.out = Join([i \in 1..Len(secondary.parts) |-> secondary.parts[i].text], "\n\n")

C30_FeedbackNeverAsksRemote ==
  [][\A h \in Tasks :
        FeedbackClick(activity'[h])
          => /\ callKind'[h] = "none"
             /\ activity'[h] = activity[h] => conversations' = conversations]_vars

(***************************************************************************)
(* Claims about ask_question and continue_conversation, checked under Spec *)
(***************************************************************************)
\* C31: a status request is made only for an exchange whose conversation id
\* and message id are both non-empty; a start or continue answer without a
\* message_id is not polled and does not end in a success result.
C31_PollOnlyWithBothIds ==
  \A h \in Tasks :
     /\ (pc[h] = "poll" \/ requests[h] > 0) => (conv_id[h] # NoId /\ msg_id[h] # NoId)
     /\ result[h].status = "success" => result[h].message_id # NoId

(***************************************************************************)
(* Claims about the client calls of one turn, checked under TurnSpec       *)
(***************************************************************************)
\* C32: ask_question, continue_conversation and send_feedback never raise:
\* when the call is over the handler holds a result whose status is success
\* or error, a poll that raised on its last attempt gives an error result,
\* and a success result of ask_question or continue_conversation carries the
\* non-empty conversation id and message id that were polled.
C32_ClientCallsReturnResults ==
  \A h \in Tasks :
     /\ pc[h] \in {"reply", "fb_ack"} => result[h].status \in {"success", "error"}
     /\ (pc[h] = "reply" /\ callOk[h] /\ ret[h].kind = "raise") => result[h].status = "error"
     /\ (result[h].status = "success" /\ callKind[h] # "none")
           => /\ result[h].conversation_id = conv_id[h] /\ conv_id[h] # NoId
              /\ result[h].message_id = msg_id[h] /\ msg_id[h] # NoId

(***************************************************************************)
(* Claims about the credential of a poll, checked under TimedSpec          *)
(***************************************************************************)
\* C33: every status request of a poll carries a token that, at the time the
\* request is sent, is not within 60 seconds of its expiry.
C33_StatusRequestsCarryFreshCredential ==
  \A i \in 1..Len(timed.requests) :
     /\ timed.requests[i].token # None
     /\ timed.requests[i].at <= timed.requests[i].expiry - 60

(***************************************************************************)
(* Claims about the replies of one turn, checked under TurnSpec            *)
(***************************************************************************)
\* the sends of the turn of h that carry the answer, and those that carry
\* the feedback card
AnswerSends(h) == {i \in 1..Len(sent[h]) : sent[h][i].text = result[h].response}
CardSends(h) == {i \in 1..Len(sent[h]) : sent[h][i].text = FeedbackCard}

\* the exchange of h ended in a success result
ExchangeSucceeded(h) == result[h].status = "success" /\ callKind[h] # "none"

\* C34: for a message whose exchange result has status success, the answer
\* text is sent at most once and before the feedback card; the card is sent
\* only when both the remote conversation id and the message id are
\* non-empty, and a card that could not be sent does not make the answer go
\* out again.
C34_AnswerOnceThenCard ==
  \A h \in Tasks :
     ExchangeSucceeded(h) =>
        /\ Cardinality(AnswerSends(h)) <= 1
        /\ Cardinality(CardSends(h)) <= 1
        /\ \A j \in CardSends(h) :
              /\ \E i \in AnswerSends(h) : i < j /\ sent[h][i].ok
              /\ result[h].conversation_id # NoId
              /\ result[h].message_id # NoId
        /\ \A j \in 1..Len(sent[h]) : j > 1 /\ j - 1 \in CardSends(h) => j \notin AnswerSends(h)

\* the answer went out, the card could not be sent, and the turn is over
\* with the answer sent once
C34_Witness ==
  \E h \in Tasks :
     /\ ExchangeSucceeded(h)
     /\ pc[h] = "done"
     /\ \E j \in CardSends(h) : ~sent[h][j].ok
     /\ Cardinality(AnswerSends(h)) = 1

(***************************************************************************)
(* Claims about failed query-result fetches, checked under AssemblySpec    *)
(***************************************************************************)
\* the attachments of the call whose query result was asked for and not had
FailedFetches ==
  {i \in 1..Len(answer.data.attachments) :
     /\ answer.data.attachments[i].isdict
     /\ \E g \in 1..Len(answer.gets) : answer.gets[g][1] = i
     /\ answer.fetch[i] = ""}

\* C35: in an assembly that returned, an attachment whose query result could
\* not be fetched contributes its explanatory text without a table, and
\* every other attachment contributes its text and its table; the answer is
\* these contributions in attachment order.
C35_FailedFetchDropsOnlyItsTable ==
  Assembled =>
     LET atts == answer.data.attachments
         fetched(i) == \E g \in 1..Len(answer.gets) : answer.gets[g][1] = i
         piece(i) ==
           IF ~atts[i].isdict THEN <<>>
           ELSE IF i \in FailedFetches THEN answer.texts[i]
           ELSE answer.texts[i]
                  \o (IF fetched(i) THEN <<answer.fetch[i]>> ELSE <<>>)
         parts == Concat([i \in 1..Len(atts) |-> piece(i)])
     IN answer.out.value = IF parts = <<>> THEN ApologyMessage ELSE Join(parts, "\n\n")

\* the fetch for the first of two attachments failed: its text, then the
\* text and the table of the second
C35_Witness ==
  /\ Assembled
  /\ FailedFetches = {1}
  /\ Len(answer.data.attachments) = 2
  /\ answer.texts[1] # <<>>
  /\ answer.texts[2] # <<>>
  /\ answer.out.value =
       answer.texts[1][1] \o "\n\n" \o answer.texts[2][1] \o "\n\n" \o TableText

(***************************************************************************)
(* Claims about the dispatch on the activity type, checked under TurnSpec  *)
(***************************************************************************)
\* the text left of a message once the mentions are taken out is not empty
HasUserText(a) == \E order \in Orders(PossibleNames(a)) : ExtractUserMessage(a, order) # ""

\* the value of the activity is a feedback action with its three fields
ValidFeedback(a) == IsFeedback(a.value) /\ FeedbackComplete(a.value)

\* C36: a handler whose activity is no message makes no start, continue,
\* status or feedback request and leaves the binding map as it is; a handler
\* that makes one of these requests handles a message that has user text or
\* carries a valid feedback action.
C36_OnlyMessagesReachRemote ==
  [][\A h \in Tasks :
        LET a == activity'[h]
            remote == callKind'[h] # "none" \/ requests'[h] > 0 \/ fbSent'[h] # ""
        IN /\ a.type # "message"
                => /\ ~remote
                   /\ Handling(h) => conversations' = conversations
           /\ remote => /\ a.type = "message"
                        /\ HasUserText(a) \/ ValidFeedback(a)]_vars

\* an activity of another type that carries the text of a question and the
\* value of a click has been handled to its end
C36_Witness ==
  \E h \in Tasks :
     /\ pc[h] = "done"
     /\ activity[h].type \in {"typing", "invoke", "conversationUpdate"}
     /\ activity[h].text = QuestionText
     /\ IsFeedback(activity[h].value)
     /\ callKind[h] = "none" /\ requests[h] = 0 /\ fbSent[h] = ""

(***************************************************************************)
(* Claims about the key of a binding, checked under TurnSpec               *)
(***************************************************************************)
\* the activity carries no conversation id
NoConversationId(a) == a.conv \in {Absent, Null, ""}

\* the handler has made its start or continue call
Asked(h) == callKind[h] # "none"

C38_OneBotPerProcess ==
  /\ process.bots <= 1
  /\ process.bot # None
        => /\ process.bot = process.bots
           /\ process.bot_genie = process.genies
           /\ process.entry = "function_app" => process.genie = process.bot_genie
  /\ process.last = "returned"
        => /\ process.bot # None
           /\ process.returned = process.bot
  /\ process.last = "raised"
        => /\ process.bot = None
           /\ process.attempted
  /\ (process.bot = None /\ process.calls > 0) => process.last = "raised"
  /\ ~process.attempted => (process.calls = 0 \/ process.bot # None)
  /\ Missing(process.env) # {} => process.bot = None

\* an initialisation failed, the next call initialised the process, and a
\* third call was handed the same bot without initialising
C38_Witness ==
  /\ process.calls = 3
  /\ process.genies = 2
  /\ process.bots = 1
  /\ process.last = "returned"
  /\ process.returned = process.bot
  /\ ~process.attempted

(***************************************************************************)
(* Claims about a failed token request, checked under CredentialSpec       *)
(***************************************************************************)
\* C39: a lookup whose token request is answered with an error or with a
\* body without access_token raises: it returns no headers, and the cached
\* token and the cached expiry are the ones the lookup found; and a lookup
\* raises only after it has sent a token request.
C39_FailedRefreshKeepsCache ==
  LET l == credential.last
  IN /\ l.reply \in {"error", "no_token"}
          => /\ l.outcome = "raised"
             /\ l.returned = None
             /\ credential.token = l.cached
             /\ credential.expires_at = l.expiry
     /\ l.outcome = "raised"
          => /\ l.posted
             /\ l.reply \notin {"none", "ok"}
             /\ credential.token = l.cached
             /\ credential.expires_at = l.expiry

\* the refresh of a cached token fails, and the token stays cached
C39_Witness ==
  /\ credential.last.reply \in {"error", "no_token"}
  /\ credential.last.outcome = "raised"
  /\ credential.last.cached # None
  /\ credential.token = credential.last.cached
  /\ credential.expires_at = credential.last.expiry
  /\ credential.expires_at > 0

====
